---- MODULE Spec2Model ----
(***************************************************************************)
(* A model of the commit-message workflow of git-ai-commit:                *)
(*   validation.ts  normalizeMessage, validateMessage, extraction, repair  *)
(*   ollama.ts      ensureLocalModel, ollamaChat (bounded retry)           *)
(*   git.ts         isGitRepo, hasStagedChanges, getStagedDiff, gitCommit  *)
(*   workflow.ts    runWorkflow, runNonInteractive, runInteractive         *)
(*                                                                         *)
(* Text is a sequence of one-character strings, so that the text functions *)
(* are computed character by character, as the code computes them.         *)
(***************************************************************************)
EXTENDS Integers, Sequences, FiniteSets, TLC

(***************************************************************************)
(* Characters and basic text operations (the JavaScript String methods and *)
(* the regular-expression character classes the code uses).                *)
(***************************************************************************)
LowerAlpha == <<"a","b","c","d","e","f","g","h","i","j","k","l","m",
                "n","o","p","q","r","s","t","u","v","w","x","y","z">>

UpperAlpha == <<"A","B","C","D","E","F","G","H","I","J","K","L","M",
                "N","O","P","Q","R","S","T","U","V","W","X","Y","Z">>

IsLower(c) == \E i \in 1..26 : LowerAlpha[i] = c

IsUpper(c) == \E i \in 1..26 : UpperAlpha[i] = c

IsLetter(c) == IsLower(c) \/ IsUpper(c)

\* \s of a regular expression, and what String.prototype.trim removes
IsSpace(c) == c \in {" ", "\t", "\n", "\r", "\f"}

\* what . of a regular expression does not match
IsLineTerminator(c) == c \in {"\n", "\r"}

\* [ \t]
IsBlank(c) == c \in {" ", "\t"}

LowerChar(c) == IF IsUpper(c) THEN LowerAlpha[CHOOSE i \in 1..26 : UpperAlpha[i] = c] ELSE c

ToLowerCase(s) == [i \in 1..Len(s) |-> LowerChar(s[i])]

SetMin(S) == CHOOSE x \in S : \A y \in S : x <= y

SetMax(S) == CHOOSE x \in S : \A y \in S : x >= y

\* s.slice(from - 1) with a 1-based index
Drop(s, from) == SubSeq(s, from, Len(s))

Trim(s) ==
    LET keep == {i \in 1..Len(s) : ~IsSpace(s[i])}
    IN IF keep = {} THEN <<>> ELSE SubSeq(s, SetMin(keep), SetMax(keep))

StartsWith(s, p) == Len(s) >= Len(p) /\ SubSeq(s, 1, Len(p)) = p

EndsWith(s, p) == Len(s) >= Len(p) /\ SubSeq(s, Len(s) - Len(p) + 1, Len(s)) = p

\* the 1-based positions at which p occurs in s
Occurrences(s, p) == {i \in 1..(Len(s) - Len(p) + 1) : SubSeq(s, i, i + Len(p) - 1) = p}

Includes(s, p) == Occurrences(s, p) # {}

\* s.split("\n"): a sequence of lines, never empty
RECURSIVE SplitLines(_)
SplitLines(s) ==
    LET nl == {i \in 1..Len(s) : s[i] = "\n"}
    IN IF nl = {} THEN <<s>>
       ELSE LET k == SetMin(nl)
            IN <<SubSeq(s, 1, k - 1)>> \o SplitLines(Drop(s, k + 1))

\* lines.join("\n")
RECURSIVE JoinLines(_)
JoinLines(lines) ==
    IF Len(lines) = 0 THEN <<>>
    ELSE IF Len(lines) = 1 THEN lines[1]
    ELSE lines[1] \o <<"\n">> \o JoinLines(Tail(lines))

\* the positions of s, as a sequence
Positions(s) == [i \in 1..Len(s) |-> i]

\* s.replace(/\r\n?/g, "\n"): the \n of a \r\n goes, every \r becomes \n
UnifyLineEndings(s) ==
    LET kept == SelectSeq(Positions(s), LAMBDA i : ~(s[i] = "\n" /\ i > 1 /\ s[i - 1] = "\r"))
    IN [k \in 1..Len(kept) |-> IF s[kept[k]] = "\r" THEN "\n" ELSE s[kept[k]]]

\* line.replace(/[ \t]+$/g, "")
StripTrailingBlanks(line) ==
    LET keep == {i \in 1..Len(line) : ~IsBlank(line[i])}
    IN IF keep = {} THEN <<>> ELSE SubSeq(line, 1, SetMax(keep))

\* while (lines.length > 0 && lines[0] === "") lines.shift()
DropLeadingEmpty(lines) ==
    LET keep == {i \in 1..Len(lines) : lines[i] # <<>>}
    IN IF keep = {} THEN <<>> ELSE SubSeq(lines, SetMin(keep), Len(lines))

\* while (lines.length > 0 && lines[lines.length - 1] === "") lines.pop()
DropTrailingEmpty(lines) ==
    LET keep == {i \in 1..Len(lines) : lines[i] # <<>>}
    IN IF keep = {} THEN <<>> ELSE SubSeq(lines, 1, SetMax(keep))

(***************************************************************************)
(* validation.ts                                                           *)
(***************************************************************************)
ALLOWED_TYPES ==
    << <<"f","e","a","t">>, <<"f","i","x">>, <<"c","h","o","r","e">>,
       <<"r","e","f","a","c","t","o","r">>, <<"d","o","c","s">>, <<"t","e","s","t">>,
       <<"p","e","r","f">>, <<"b","u","i","l","d">>, <<"c","i">> >>

isAllowedType(value) == \E i \in 1..Len(ALLOWED_TYPES) : ALLOWED_TYPES[i] = value

normalizeMessage(input) ==
    LET split == SplitLines(UnifyLineEndings(input))
        lines == [i \in 1..Len(split) |-> StripTrailingBlanks(split[i])]
    IN JoinLines(DropTrailingEmpty(DropLeadingEmpty(lines)))

\* the length of the longest prefix of s whose characters all satisfy the class
LetterRun(s, lowerOnly) ==
    LET ok(c) == IF lowerOnly THEN IsLower(c) ELSE IsLetter(c)
        stop == {i \in 1..Len(s) : ~ok(s[i])}
    IN IF stop = {} THEN Len(s) ELSE SetMin(stop) - 1

\* The optional group (\([^)]+\))? at 1-based position p of s: the position
\* after it, or p itself when the group does not match there.
AfterScope(s, p) ==
    IF p <= Len(s) /\ s[p] = "("
    THEN LET close == {i \in (p + 1)..Len(s) : s[i] = ")"}
         IN IF close # {} /\ SetMin(close) > p + 1 THEN SetMin(close) + 1 ELSE p
    ELSE p

\* the optional !? at position p
AfterBang(s, p) == IF p <= Len(s) /\ s[p] = "!" THEN p + 1 ELSE p

\* SUBJECT_REGEX = /^([a-z]+)(\([^)]+\))?!?:\s(.+)$/ on one line
MatchesSubjectRegex(subject) ==
    LET n == LetterRun(subject, TRUE)
        p == AfterBang(subject, AfterScope(subject, n + 1))
    IN /\ n >= 1
       /\ p + 2 <= Len(subject)
       /\ subject[p] = ":"
       /\ IsSpace(subject[p + 1])
       /\ \A i \in (p + 2)..Len(subject) : ~IsLineTerminator(subject[i])

\* conventional[1]
SubjectRegexType(subject) == SubSeq(subject, 1, LetterRun(subject, TRUE))

SubjectMaxLength == 72

\* The backquote character (written as a name: the character itself cannot
\* appear in a module).
Backquote == "BACKQUOTE"

Fence == <<Backquote, Backquote, Backquote>>

Valid == [ok |-> TRUE, reason |-> "none"]

Invalid(reason) == [ok |-> FALSE, reason |-> reason]

\* a validation that tests the grammar before the length and the period
GrammarFirst(subject) ==
    IF subject = <<>> THEN Invalid("Subject line is empty")
    ELSE IF ~MatchesSubjectRegex(subject) THEN Invalid("Not Conventional Commits format")
    ELSE IF Len(subject) > SubjectMaxLength THEN Invalid("Subject line > 72 chars")
    ELSE IF subject[Len(subject)] = "." THEN Invalid("Subject should not end with a period")
    ELSE IF ~isAllowedType(SubjectRegexType(subject)) THEN Invalid("Type must be one of")
    ELSE Valid

\* validateMessage from the subject on: lines 66-79
validateSubject(subject) ==
    IF subject = <<>> THEN Invalid("Subject line is empty")
    ELSE IF Len(subject) > SubjectMaxLength THEN Invalid("Subject line > 72 chars")
    ELSE IF subject[Len(subject)] = "." THEN Invalid("Subject should not end with a period")
    ELSE IF ~MatchesSubjectRegex(subject) THEN Invalid("Not Conventional Commits format")
    ELSE IF ~isAllowedType(SubjectRegexType(subject)) THEN Invalid("Type must be one of")
    ELSE Valid

\* validateMessage on the normalized message: lines 63-66
validateNormalized(normalized) ==
    IF normalized = <<>> THEN Invalid("Message is empty")
    ELSE IF Includes(normalized, Fence) THEN Invalid("No markdown/code fences")
    ELSE validateSubject(Trim(SplitLines(normalized)[1]))

validateMessage(message) == validateNormalized(normalizeMessage(message))

\* null and undefined of a text-typed value: a value that is no text
Null == <<"NULL">>

\* the optional language tag (?:json|txt|text)? of a fence, case-insensitive
AfterFenceTag(inner) ==
    LET low == ToLowerCase(inner)
    IN IF StartsWith(low, <<"j","s","o","n">>) THEN Drop(inner, 5)
       ELSE IF StartsWith(low, <<"t","x","t">>) THEN Drop(inner, 4)
       ELSE IF StartsWith(low, <<"t","e","x","t">>) THEN Drop(inner, 5)
       ELSE inner

\* trimmed.match(/^BQ BQ BQ(?:json|txt|text)?\s*([\s\S]*?)\s*BQ BQ BQ$/i), BQ the
\* backquote: the text between the first and the last fence, without the tag
\* and the surrounding white space
stripWrappingCodeFence(input) ==
    LET trimmed == Trim(input)
    IN IF Len(trimmed) >= 6 /\ StartsWith(trimmed, Fence) /\ EndsWith(trimmed, Fence)
       THEN Trim(AfterFenceTag(SubSeq(trimmed, 4, Len(trimmed) - 3)))
       ELSE trimmed

(***************************************************************************)
(* JSON.parse, for the texts of the model: objects, arrays, strings with   *)
(* the escapes \" \\ \/ \n \r \t, integers, true, false and null. A parse  *)
(* result records what parseMessageFromJson reads: the kind of the value   *)
(* and, for an object, its "message" member (the last one wins).           *)
(***************************************************************************)
IsDigit(c) == c \in {"0","1","2","3","4","5","6","7","8","9"}

JsonFail ==
    [ok |-> FALSE, next |-> 0, kind |-> "none", str |-> <<>>,
     hasMessage |-> FALSE, messageIsString |-> FALSE, message |-> <<>>]

JsonScalar(next, kind, str) ==
    [ok |-> TRUE, next |-> next, kind |-> kind, str |-> str,
     hasMessage |-> FALSE, messageIsString |-> FALSE, message |-> <<>>]

SkipSpace(s, p) ==
    LET stop == {i \in p..Len(s) : ~IsSpace(s[i])}
    IN IF stop = {} THEN Len(s) + 1 ELSE SetMin(stop)

\* the characters of a JSON string from position p (after the opening quote)
RECURSIVE JsonStringBody(_, _, _)
JsonStringBody(s, p, acc) ==
    IF p > Len(s) THEN JsonFail
    ELSE IF s[p] = "\"" THEN JsonScalar(p + 1, "string", acc)
    ELSE IF s[p] \in {"\n", "\r", "\t"} THEN JsonFail
    ELSE IF s[p] = "\\"
         THEN IF p + 1 > Len(s) THEN JsonFail
              ELSE IF s[p + 1] \in {"\"", "\\", "/"} THEN JsonStringBody(s, p + 2, Append(acc, s[p + 1]))
              ELSE IF s[p + 1] = "n" THEN JsonStringBody(s, p + 2, Append(acc, "\n"))
              ELSE IF s[p + 1] = "r" THEN JsonStringBody(s, p + 2, Append(acc, "\r"))
              ELSE IF s[p + 1] = "t" THEN JsonStringBody(s, p + 2, Append(acc, "\t"))
              ELSE JsonFail
    ELSE JsonStringBody(s, p + 1, Append(acc, s[p]))

JsonLiteral(s, p, word) ==
    IF p + Len(word) - 1 <= Len(s) /\ SubSeq(s, p, p + Len(word) - 1) = word
    THEN JsonScalar(p + Len(word), "literal", <<>>)
    ELSE JsonFail

\* -?(0|[1-9][0-9]*)
JsonNumber(s, p) ==
    LET d == IF s[p] = "-" THEN p + 1 ELSE p
        stop == {i \in d..Len(s) : ~IsDigit(s[i])}
        end == IF stop = {} THEN Len(s) + 1 ELSE SetMin(stop)
    IN IF end = d \/ (s[d] = "0" /\ end > d + 1) THEN JsonFail
       ELSE JsonScalar(end, "number", <<>>)

RECURSIVE JsonValue(_, _), JsonMembers(_, _, _), JsonElements(_, _)
\* the JSON value that starts at position p (white space skipped by the caller)
JsonValue(s, p) ==
    IF p > Len(s) THEN JsonFail
    ELSE IF s[p] = "\"" THEN JsonStringBody(s, p + 1, <<>>)
    ELSE IF s[p] = "{"
         THEN LET q == SkipSpace(s, p + 1)
              IN IF q <= Len(s) /\ s[q] = "}"
                 THEN JsonScalar(q + 1, "object", <<>>)
                 ELSE JsonMembers(s, q, JsonScalar(0, "object", <<>>))
    ELSE IF s[p] = "["
         THEN LET q == SkipSpace(s, p + 1)
              IN IF q <= Len(s) /\ s[q] = "]"
                 THEN JsonScalar(q + 1, "array", <<>>)
                 ELSE JsonElements(s, q)
    ELSE IF s[p] = "t" THEN JsonLiteral(s, p, <<"t","r","u","e">>)
    ELSE IF s[p] = "f" THEN JsonLiteral(s, p, <<"f","a","l","s","e">>)
    ELSE IF s[p] = "n" THEN [JsonLiteral(s, p, <<"n","u","l","l">>) EXCEPT !.kind = "null"]
    ELSE IF s[p] = "-" \/ IsDigit(s[p]) THEN JsonNumber(s, p)
    ELSE JsonFail

\* the members of an object from position p (at a key), obj the object so far
JsonMembers(s, p, obj) ==
    IF p > Len(s) \/ s[p] # "\"" THEN JsonFail
    ELSE LET key == JsonStringBody(s, p + 1, <<>>)
             colon == SkipSpace(s, key.next)
         IN IF ~key.ok \/ colon > Len(s) \/ s[colon] # ":" THEN JsonFail
            ELSE LET val == JsonValue(s, SkipSpace(s, colon + 1))
                     after == SkipSpace(s, val.next)
                     now == IF key.str = <<"m","e","s","s","a","g","e">>
                            THEN [obj EXCEPT !.hasMessage = TRUE,
                                             !.messageIsString = (val.kind = "string"),
                                             !.message = val.str]
                            ELSE obj
                 IN IF ~val.ok \/ after > Len(s) THEN JsonFail
                    ELSE IF s[after] = "}" THEN [now EXCEPT !.next = after + 1]
                    ELSE IF s[after] = "," THEN JsonMembers(s, SkipSpace(s, after + 1), now)
                    ELSE JsonFail

\* the elements of an array from position p (at a value)
JsonElements(s, p) ==
    LET val == JsonValue(s, p)
        after == SkipSpace(s, val.next)
    IN IF ~val.ok \/ after > Len(s) THEN JsonFail
       ELSE IF s[after] = "]" THEN JsonScalar(after + 1, "array", <<>>)
       ELSE IF s[after] = "," THEN JsonElements(s, SkipSpace(s, after + 1))
       ELSE JsonFail

\* JSON.parse(input): the whole text is one value, white space around it
JsonParse(input) ==
    LET val == JsonValue(input, SkipSpace(input, 1))
    IN IF val.ok /\ SkipSpace(input, val.next) = Len(input) + 1 THEN val ELSE JsonFail

parseMessageFromJson(input) ==
    LET parsed == JsonParse(input)
    IN IF ~parsed.ok THEN Null
       ELSE IF parsed.kind \notin {"object", "array"} THEN Null
       ELSE IF ~parsed.hasMessage THEN Null
       ELSE IF parsed.messageIsString THEN parsed.message ELSE Null

parseMessageFromEmbeddedJson(input) ==
    LET open == {i \in 1..Len(input) : input[i] = "{"}
        close == {i \in 1..Len(input) : input[i] = "}"}
    IN IF open = {} \/ close = {} THEN Null
       ELSE IF SetMax(close) <= SetMin(open) THEN Null
       ELSE parseMessageFromJson(SubSeq(input, SetMin(open), SetMax(close)))

\* a || b in place of a ?? b: an empty text counts as missing
OrElse(a, b) == IF a # Null /\ a # <<>> THEN a ELSE b

\* a ?? b
Coalesce(a, b) == IF a # Null THEN a ELSE b

\* lines 56-58
extractFromNoFence(noFence) ==
    normalizeMessage(stripWrappingCodeFence(
        Coalesce(Coalesce(parseMessageFromJson(noFence), parseMessageFromEmbeddedJson(noFence)),
                 noFence)))

extractMessageFromModelOutput(raw) == extractFromNoFence(stripWrappingCodeFence(raw))

isDocumentationFile(path) ==
    \/ StartsWith(path, <<"d","o","c","s","/">>)
    \/ EndsWith(path, <<".","m","d">>)
    \/ EndsWith(path, <<".","m","d","x">>)
    \/ EndsWith(path, <<".","r","s","t">>)
    \/ Includes(path, <<"/","d","o","c","s","/">>)

isTestFile(path) ==
    \/ Includes(path, <<"/","t","e","s","t","/">>)
    \/ Includes(path, <<"/","t","e","s","t","s","/">>)
    \/ Includes(path, <<"_","_","t","e","s","t","s","_","_">>)
    \/ EndsWith(path, <<".","s","p","e","c",".","t","s">>)
    \/ EndsWith(path, <<".","t","e","s","t",".","t","s">>)
    \/ EndsWith(path, <<".","s","p","e","c",".","j","s">>)
    \/ EndsWith(path, <<".","t","e","s","t",".","j","s">>)

isCiFile(path) ==
    \/ StartsWith(path, <<".","g","i","t","h","u","b","/","w","o","r","k","f","l","o","w","s","/">>)
    \/ StartsWith(path, <<".","g","i","t","l","a","b","-","c","i">>)
    \/ StartsWith(path, <<".","c","i","r","c","l","e","c","i","/">>)
    \/ StartsWith(path, <<"a","z","u","r","e","-","p","i","p","e","l","i","n","e","s">>)

isBuildFile(path) ==
    \/ path = <<"p","a","c","k","a","g","e","-","l","o","c","k",".","j","s","o","n">>
    \/ path = <<"y","a","r","n",".","l","o","c","k">>
    \/ path = <<"p","n","p","m","-","l","o","c","k",".","y","a","m","l">>
    \/ path = <<"p","a","c","k","a","g","e",".","j","s","o","n">>
    \/ EndsWith(path, <<"/","d","o","c","k","e","r","f","i","l","e">>)
    \/ EndsWith(path, <<"/","d","o","c","k","e","r","-","c","o","m","p","o","s","e",".","y","m","l">>)

DiffHeader == <<"d","i","f","f"," ","-","-","g","i","t"," ","a","/">>

\* /^diff --git a\/(.+?) b\/(.+)$/ on one line: match[2], or Null without a match
DiffHeaderFile(line) ==
    LET from == Len(DiffHeader) + 2
        at == {i \in Occurrences(line, <<" ","b","/">>) : i >= from /\ i + 3 <= Len(line)}
    IN IF StartsWith(line, DiffHeader) /\ at # {}
       THEN Drop(line, SetMin(at) + 3)
       ELSE Null

\* the lines of a text for a multi-line regular expression: \n and \r end a line
RegexLines(text) == SplitLines([i \in 1..Len(text) |-> IF text[i] = "\r" THEN "\n" ELSE text[i]])

\* files: the lower-cased, trimmed new path of every header line of the diff
DiffFiles(diff) ==
    LET lines == RegexLines(diff)
        named(i) == DiffHeaderFile(lines[i]) # Null /\ Trim(DiffHeaderFile(lines[i])) # <<>>
        hits == SelectSeq(Positions(lines), named)
    IN [k \in 1..Len(hits) |-> ToLowerCase(Trim(DiffHeaderFile(lines[hits[k]])))]

\* Faulty variant of inferTypeFromDiff: one file of a category is enough.
AnyFileDecides(diff) ==
    LET files == DiffFiles(diff)
    IN IF Len(files) = 0 THEN Null
       ELSE IF (\E i \in 1..Len(files) : isDocumentationFile(files[i])) THEN <<"d","o","c","s">>
       ELSE IF (\E i \in 1..Len(files) : isTestFile(files[i])) THEN <<"t","e","s","t">>
       ELSE IF (\E i \in 1..Len(files) : isCiFile(files[i])) THEN <<"c","i">>
       ELSE IF (\E i \in 1..Len(files) : isBuildFile(files[i])) THEN <<"b","u","i","l","d">>
       ELSE Null

inferTypeFromDiff(diff) ==
    LET files == DiffFiles(diff)
    IN IF Len(files) = 0 THEN Null
       ELSE IF (\A i \in 1..Len(files) : isDocumentationFile(files[i])) THEN <<"d","o","c","s">>
       ELSE IF (\A i \in 1..Len(files) : isTestFile(files[i])) THEN <<"t","e","s","t">>
       ELSE IF (\A i \in 1..Len(files) : isCiFile(files[i])) THEN <<"c","i">>
       ELSE IF (\A i \in 1..Len(files) : isBuildFile(files[i])) THEN <<"b","u","i","l","d">>
       ELSE Null

\* s.replace(/\s+/g, with): every run of white space becomes the character with
ReplaceSpaceRuns(s, with) ==
    LET kept == SelectSeq(Positions(s), LAMBDA i : ~IsSpace(s[i]) \/ i = 1 \/ ~IsSpace(s[i - 1]))
    IN [k \in 1..Len(kept) |-> IF IsSpace(s[kept[k]]) THEN with ELSE s[kept[k]]]

\* a null or empty scope is no scope
normalizeScope(scope) ==
    IF scope = Null \/ scope = <<>> THEN Null
    ELSE LET dashed == ReplaceSpaceRuns(Trim(scope), "-")
             compact == SelectSeq(dashed, LAMBDA c : c \notin {"(", ")"})
         IN IF compact = <<>> THEN Null ELSE compact

NoHeader == [matched |-> FALSE, type |-> <<>>, scope |-> Null, description |-> <<>>]

\* /^([A-Za-z]+)(?:\(([^)]+)\))?!?:\s*(.+)$/
parseTypedSubject(subject) ==
    LET n == LetterRun(subject, FALSE)
        s == AfterScope(subject, n + 1)
        p == AfterBang(subject, s)
        d == SkipSpace(subject, p + 1)
        \* \s* gives back one character when it would leave (.+) empty
        from == IF d > Len(subject) THEN Len(subject) ELSE d
    IN IF /\ n >= 1
          /\ p + 1 <= Len(subject)
          /\ subject[p] = ":"
          /\ \A i \in from..Len(subject) : ~IsLineTerminator(subject[i])
       THEN [matched |-> TRUE,
             type |-> ToLowerCase(SubSeq(subject, 1, n)),
             scope |-> IF s > n + 1 THEN Trim(SubSeq(subject, n + 2, s - 2)) ELSE Null,
             description |-> Trim(Drop(subject, from))]
       ELSE NoHeader

\* /^([A-Za-z]+)\s*[-:]\s*(.+)$/
parseLooseTypedSubject(subject) ==
    LET n == LetterRun(subject, FALSE)
        p == SkipSpace(subject, n + 1)
        d == SkipSpace(subject, p + 1)
        from == IF d > Len(subject) THEN Len(subject) ELSE d
    IN IF /\ n >= 1
          /\ p + 1 <= Len(subject)
          /\ subject[p] \in {"-", ":"}
          /\ \A i \in from..Len(subject) : ~IsLineTerminator(subject[i])
       THEN [matched |-> TRUE,
             type |-> ToLowerCase(SubSeq(subject, 1, n)),
             scope |-> Null,
             description |-> Trim(Drop(subject, from))]
       ELSE NoHeader

FallbackDescription ==
    <<"u","p","d","a","t","e"," ","p","r","o","j","e","c","t"," ","f","i","l","e","s">>

normalizeDescription(description) ==
    LET trimmed == Trim(description)
        noPeriod == IF Len(trimmed) > 0 /\ trimmed[Len(trimmed)] = "."
                    THEN SubSeq(trimmed, 1, Len(trimmed) - 1)
                    ELSE trimmed
        cleaned == ReplaceSpaceRuns(noPeriod, " ")
    IN IF cleaned = <<>> THEN FallbackDescription ELSE cleaned

IsQuote(c) == c \in {"\"", "'", Backquote}

\* s.replace(/^["'BQ]+|["'BQ]+$/g, ""), BQ the backquote
StripQuotes(s) ==
    LET keep == {i \in 1..Len(s) : ~IsQuote(s[i])}
    IN IF keep = {} THEN <<>> ELSE SubSeq(s, SetMin(keep), SetMax(keep))

\* The header repairMessage reads off the subject: the typed header when the
\* subject has one, else the loose one when its type is allowed, else none
\* and the whole subject as the description (lines 158-173).
DetectedHeader(subject, typed, loose) ==
    IF typed.matched
    THEN [typed EXCEPT !.type = IF isAllowedType(typed.type) THEN typed.type ELSE Null]
    ELSE IF loose.matched /\ isAllowedType(loose.type) THEN loose
    ELSE [matched |-> FALSE, type |-> Null, scope |-> Null, description |-> subject]

\* a selection that prefers the type inferred from the diff to the detected one
InferredFirst(forcedType, detectedType, inferredType) ==
    IF forcedType # Null THEN forcedType
    ELSE IF inferredType # Null THEN inferredType
    ELSE detectedType

\* lines 175-176: the forced type, else the detected one, else the inferred one
SelectType(forcedType, detectedType, inferredType) ==
    IF forcedType # Null THEN forcedType
    ELSE IF detectedType # Null THEN detectedType
    ELSE inferredType

\* line 177 and line 183: the scope argument, else the detected scope; an
\* empty scope is none
SelectScope(normalizedScope, detectedScope) ==
    IF normalizedScope # Null THEN normalizedScope
    ELSE IF detectedScope = <<>> THEN Null
    ELSE detectedScope

\* lines 181-187
RepairedSubject(selectedType, selectedScope, description) ==
    IF selectedType # Null
    THEN selectedType
         \o (IF selectedScope # Null THEN <<"(">> \o selectedScope \o <<")">> ELSE <<>>)
         \o <<":", " ">> \o description
    ELSE description

\* lines 152 and 189
WithBody(repairedSubject, body) ==
    normalizeMessage(repairedSubject \o (IF body # <<>> THEN <<"\n","\n">> \o body ELSE <<>>))

\* lines 154-187 for a subject: the repaired subject line
repairSubject(header, diff, forcedType, scope) ==
    RepairedSubject(SelectType(forcedType, header.type,
                               IF forcedType # Null THEN forcedType ELSE inferTypeFromDiff(diff)),
                    SelectScope(normalizeScope(scope), header.scope),
                    normalizeDescription(header.description))

\* lines 149-189 for the lines of a message that is not empty
repairLines(lines, subject, diff, forcedType, scope) ==
    WithBody(repairSubject(DetectedHeader(subject, parseTypedSubject(subject),
                                          parseLooseTypedSubject(subject)),
                           diff, forcedType, scope),
             normalizeMessage(JoinLines(Tail(lines))))

\* lines 149-150: the subject is the first line without wrapping quotes
repairOriginal(lines, diff, forcedType, scope) ==
    repairLines(lines, Trim(StripQuotes(Trim(lines[1]))), diff, forcedType, scope)

\* lines 190-193
RepairResult(original, repaired) == [message |-> repaired, didRepair |-> repaired # original]

\* lines 146-147 and 190-193
repairNormalized(original, diff, forcedType, scope) ==
    IF original = <<>> THEN [message |-> original, didRepair |-> FALSE]
    ELSE RepairResult(original, repairOriginal(SplitLines(original), diff, forcedType, scope))

repairMessage(message, diff, forcedType, scope) ==
    repairNormalized(normalizeMessage(stripWrappingCodeFence(message)), diff, forcedType, scope)

(***************************************************************************)
(* util.ts                                                                 *)
(***************************************************************************)
DIFF_TRUNCATION_MARKER ==
    <<"\n","\n","-","-","-"," ","D","I","F","F"," ","T","R","U","N","C","A","T","E","D"," ",
      "-","-","-","\n","\n">>

\* Math.floor(available * 0.7)
HeadShare(available) == (available * 7) \div 10

\* clampDiff without the branch for limits too small to hold the marker
ClampAlwaysMarks(diff, maxChars) ==
    LET limit == IF maxChars > 0 THEN maxChars ELSE 0
        available == limit - Len(DIFF_TRUNCATION_MARKER)
        headSize == IF HeadShare(available) > 1 THEN HeadShare(available) ELSE 1
        tailSize == IF available - headSize > 1 THEN available - headSize ELSE 1
    IN IF limit = 0 THEN <<>>
       ELSE IF Len(diff) <= limit THEN diff
       ELSE SubSeq(diff, 1, headSize) \o DIFF_TRUNCATION_MARKER
            \o SubSeq(diff, Len(diff) - tailSize + 1, Len(diff))

clampDiff(diff, maxChars) ==
    LET limit == IF maxChars > 0 THEN maxChars ELSE 0
        available == limit - Len(DIFF_TRUNCATION_MARKER)
        headSize == IF HeadShare(available) > 1 THEN HeadShare(available) ELSE 1
        tailSize == IF available - headSize > 1 THEN available - headSize ELSE 1
    IN IF limit = 0 THEN <<>>
       ELSE IF Len(diff) <= limit THEN diff
       ELSE IF limit <= Len(DIFF_TRUNCATION_MARKER) + 20 THEN SubSeq(diff, 1, limit)
       ELSE SubSeq(diff, 1, headSize) \o DIFF_TRUNCATION_MARKER
            \o SubSeq(diff, Len(diff) - tailSize + 1, Len(diff))

(***************************************************************************)
(* Thrown values. A fixed phrase of the program (an error message, a hint) *)
(* is one token of a text; a text built from a template is the phrase      *)
(* followed by what the template inserts.                                  *)
(***************************************************************************)
Phrase(words) == <<words>>

NoStatus == 0

\* class: "WorkflowError", "OllamaError", "Error" (any other Error object),
\* "string" (a thrown string, message being the string) or "other"
Thrown(class, message) ==
    [class |-> class, message |-> message, code |-> "none", hint |-> Null,
     status |-> NoStatus, retryable |-> FALSE, exitCode |-> -1]

OllamaError(message, code, hint, status, retryable) ==
    [class |-> "OllamaError", message |-> message, code |-> code, hint |-> hint,
     status |-> status, retryable |-> retryable, exitCode |-> -1]

\* String(error) of a thrown value that is no Error object
StringOf(error) == IF error.class = "string" THEN error.message ELSE Phrase("undefined")

\* Faulty variant of normalizeErrorMessage: the message is not tested for
\* being blank.
UntestedMessage(error, fallback) ==
    IF error.class \in {"WorkflowError", "OllamaError", "Error", "string"} THEN error.message
    ELSE fallback

normalizeErrorMessage(error, fallback) ==
    IF error.class \in {"WorkflowError", "OllamaError", "Error"} /\ Trim(error.message) # <<>>
    THEN error.message
    ELSE IF error.class = "string" /\ Trim(error.message) # <<>> THEN error.message
    ELSE fallback

(***************************************************************************)
(* exit-codes.ts                                                           *)
(***************************************************************************)
ExitSuccess == 0

ExitUsageError == 1

ExitGitContextError == 2

ExitOllamaError == 3

ExitInvalidAiOutput == 4

ExitGitCommitError == 5

ExitInternalError == 6

EXIT_CODE_LABEL(exitCode) ==
    CASE exitCode = ExitSuccess -> "SUCCESS"
      [] exitCode = ExitUsageError -> "USAGE_ERROR"
      [] exitCode = ExitGitContextError -> "GIT_CONTEXT_ERROR"
      [] exitCode = ExitOllamaError -> "OLLAMA_ERROR"
      [] exitCode = ExitInvalidAiOutput -> "INVALID_AI_OUTPUT"
      [] exitCode = ExitGitCommitError -> "GIT_COMMIT_ERROR"
      [] exitCode = ExitInternalError -> "INTERNAL_ERROR"

(***************************************************************************)
(* ollama.ts                                                               *)
(***************************************************************************)
\* What one fetch of the backend can do: abort on the timeout, fail to connect
\* (TypeError), throw any other value, or answer with a status and a body.
\*   text     the body of a response that is not ok (res.text())
\*   jsonOk   whether the body of an ok response parses (res.json())
\*   content  data.message.content of a chat response, Null when no string
\*   models   the model names of a tags response
FetchOutcome(kind, status, text, jsonOk, content, models, thrown) ==
    [kind |-> kind, status |-> status, text |-> text, jsonOk |-> jsonOk,
     content |-> content, models |-> models, thrown |-> thrown]

NoThrown == Thrown("none", <<>>)

\* fetchWithTimeout: the error it throws for a fetch that does not answer
fetchWithTimeoutError(outcome) ==
    IF outcome.kind = "abort"
    THEN OllamaError(Phrase("Ollama request timed out."), "TIMEOUT",
                     Phrase("Ensure Ollama is running and/or increase --timeout-ms."),
                     NoStatus, TRUE)
    ELSE IF outcome.kind = "typeError"
    THEN OllamaError(Phrase("Cannot reach Ollama."), "UNREACHABLE",
                     Phrase("Run ollama serve and verify --host."), NoStatus, TRUE)
    ELSE outcome.thrown

\* res.ok
ResponseOk(status) == status >= 200 /\ status <= 299

matchesModel(requested, available) ==
    LET req == ToLowerCase(requested)
        model == ToLowerCase(available)
    IN \/ req = model
       \/ ~Includes(req, <<":">>) /\ StartsWith(model, req \o <<":">>)

\* listLocalModels: [threw, error, names]
listLocalModels(outcome) ==
    IF outcome.kind # "response"
    THEN [threw |-> TRUE, error |-> fetchWithTimeoutError(outcome), names |-> <<>>]
    ELSE IF ~ResponseOk(outcome.status)
    THEN [threw |-> TRUE,
          error |-> OllamaError(Phrase("Ollama returned HTTP error while checking models."),
                                "HTTP_ERROR",
                                Phrase("Confirm Ollama is healthy and reachable on --host."),
                                outcome.status, outcome.status >= 500),
          names |-> <<>>]
    ELSE IF ~outcome.jsonOk
    THEN [threw |-> TRUE,
          error |-> OllamaError(Phrase("Failed to parse Ollama model list response."),
                                "INVALID_RESPONSE",
                                Phrase("Update Ollama and retry."), NoStatus, FALSE),
          names |-> <<>>]
    ELSE [threw |-> FALSE, error |-> NoThrown,
          names |-> SelectSeq([i \in 1..Len(outcome.models) |-> Trim(outcome.models[i])],
                              LAMBDA name : name # <<>>)]

\* ensureLocalModel: [threw, error]
ensureLocalModel(model, outcome) ==
    LET listed == listLocalModels(outcome)
        found == \E i \in 1..Len(listed.names) : matchesModel(model, listed.names[i])
    IN IF listed.threw THEN [threw |-> TRUE, error |-> listed.error]
       ELSE IF ~found
       THEN [threw |-> TRUE,
             error |-> OllamaError(Phrase("Model is not available in local Ollama."),
                                   "MODEL_NOT_FOUND",
                                   Phrase("Run ollama pull and try again."), NoStatus, FALSE)]
       ELSE [threw |-> FALSE, error |-> NoThrown]

\* Faulty variants of shouldRetry: one that reads the status only, and one
\* that retries whatever the error is.
HttpStatusOnly(error) ==
    error.code = "HTTP_ERROR" /\ error.status # NoStatus /\ error.status >= 500

AlwaysRetry(error) == TRUE

shouldRetry(error) ==
    \/ error.retryable
    \/ error.code = "HTTP_ERROR" /\ error.status # NoStatus /\ error.status >= 500

normalizeOllamaError(error) ==
    IF error.class = "OllamaError" THEN error
    ELSE IF error.class \in {"Error", "WorkflowError"}
    THEN OllamaError(error.message, "HTTP_ERROR", Null, NoStatus, FALSE)
    ELSE OllamaError(StringOf(error), "HTTP_ERROR", Null, NoStatus, FALSE)

\* sleep(150 * (attempt + 1))
BackoffMs(attempt) == 150 * (attempt + 1)

\* The body of the try block of ollamaChat for one attempt: [threw, error, content]
chatAttempt(outcome) ==
    IF outcome.kind # "response"
    THEN [threw |-> TRUE, error |-> fetchWithTimeoutError(outcome), content |-> Null]
    ELSE IF ~ResponseOk(outcome.status)
    THEN IF outcome.status = 404 /\ Includes(ToLowerCase(outcome.text), <<"m","o","d","e","l">>)
         THEN [threw |-> TRUE,
               error |-> OllamaError(Phrase("Model is not available in local Ollama."),
                                     "MODEL_NOT_FOUND",
                                     Phrase("Run ollama pull and try again."),
                                     outcome.status, FALSE),
               content |-> Null]
         ELSE [threw |-> TRUE,
               error |-> OllamaError(Phrase("Ollama error: ") \o outcome.text, "HTTP_ERROR",
                                     Phrase("Check Ollama logs and confirm the local model can run."),
                                     outcome.status, outcome.status >= 500),
               content |-> Null]
    ELSE IF ~outcome.jsonOk
    THEN [threw |-> TRUE, error |-> Thrown("Error", Phrase("Unexpected token in JSON")),
          content |-> Null]
    ELSE IF outcome.content = Null \/ Trim(outcome.content) = <<>>
    THEN [threw |-> TRUE,
          error |-> OllamaError(Phrase("Ollama returned an empty response."), "INVALID_RESPONSE",
                                Phrase("Try a larger --timeout-ms, then retry generation."),
                                NoStatus, FALSE),
          content |-> Null]
    ELSE [threw |-> FALSE, error |-> NoThrown, content |-> outcome.content]

(***************************************************************************)
(* workflow.ts                                                             *)
(***************************************************************************)
WorkflowError(exitCode, message, hint) ==
    [class |-> "WorkflowError", message |-> message, code |-> EXIT_CODE_LABEL(exitCode),
     hint |-> hint, status |-> NoStatus, retryable |-> FALSE, exitCode |-> exitCode]

SuccessResult(message, source, committed, cancelled) ==
    [ok |-> TRUE, exitCode |-> ExitSuccess, message |-> message, source |-> source,
     committed |-> committed, cancelled |-> cancelled]

ErrorResult(exitCode, code, message, hint) ==
    [ok |-> FALSE, exitCode |-> exitCode, code |-> code, message |-> message, hint |-> hint]

\* generateCandidate, lines 295-300
Candidate(message, didRepair) ==
    [message |-> message,
     source |-> IF didRepair THEN "repaired" ELSE "model",
     validation |-> validateMessage(message)]

CandidateOf(repaired) == Candidate(normalizeMessage(repaired.message), repaired.didRepair)

\* generateCandidate, lines 286-300, on the text ollamaChat returned
generateCandidate(content, diff, opts) ==
    CandidateOf(repairMessage(extractMessageFromModelOutput(Trim(content)), diff,
                              opts.type, opts.scope))

\* Faulty variants of ensureValid: one that never throws, and one that
\* forgets the override.
NeverThrows(candidate, allowInvalid) == FALSE

ThrowsWhenInvalid(candidate, allowInvalid) == ~candidate.validation.ok

\* ensureValid: whether it throws
ensureValidThrows(candidate, allowInvalid) == ~(candidate.validation.ok \/ allowInvalid)

InvalidAiOutputError(candidate) ==
    WorkflowError(ExitInvalidAiOutput,
                  Phrase("AI output failed validation: ") \o Phrase(candidate.validation.reason),
                  Phrase("Regenerate/edit the message or pass --allow-invalid to override."))

\* Faulty variant of toErrorResult: the branch for OllamaError is missing.
WithoutOllamaBranch(error) ==
    IF error.class = "WorkflowError"
    THEN ErrorResult(error.exitCode, error.code, error.message, error.hint)
    ELSE ErrorResult(ExitInternalError, EXIT_CODE_LABEL(ExitInternalError),
                     normalizeErrorMessage(error, Phrase("Unexpected internal error.")), Null)

toErrorResult(error) ==
    IF error.class = "WorkflowError"
    THEN ErrorResult(error.exitCode, error.code, error.message, error.hint)
    ELSE IF error.class = "OllamaError"
    THEN ErrorResult(ExitOllamaError, EXIT_CODE_LABEL(ExitOllamaError), error.message, error.hint)
    ELSE ErrorResult(ExitInternalError, EXIT_CODE_LABEL(ExitInternalError),
                     normalizeErrorMessage(error, Phrase("Unexpected internal error.")), Null)

\* Faulty variant of commitMessage: the rejection of gitCommit is thrown on
\* as it is.
Rethrown(error) == error

\* the error commitMessage throws when gitCommit rejects with error
CommitError(error) ==
    WorkflowError(ExitGitCommitError, normalizeErrorMessage(error, Phrase("git commit failed.")),
                  Phrase("Resolve git hook or repository errors, then retry."))

\* Faulty variant of the mode test: dryRun alone does not select the
\* non-interactive path.
CiOnly(opts) == opts.ci

\* opts.ci || opts.dryRun
NonInteractive(opts) == opts.ci \/ opts.dryRun

(***************************************************************************)
(* git.ts                                                                  *)
(***************************************************************************)
NoExitCode == -1

\* What one run of git through execa can do: resolve with its output, or reject
\* with an error value that carries a numeric exitCode or none.
ExecaOutcome(resolved, exitCode, error, stdout) ==
    [resolved |-> resolved, exitCode |-> exitCode, error |-> error, stdout |-> stdout]

\* getExitCode(error): the exitCode of an object that has a numeric one
getExitCode(outcome) ==
    IF outcome.error.class \in {"string", "other"} THEN NoExitCode ELSE outcome.exitCode

\* Faulty variant of isGitRepo: the rejection of git rev-parse is ignored.
AlwaysRepo(outcome) == TRUE

isGitRepo(outcome) == outcome.resolved

\* Faulty variant of hasStagedChanges: exit code 0 is read as "diff exists".
StagedAssumed(outcome) == [threw |-> FALSE, error |-> NoThrown, value |-> TRUE]

\* hasStagedChanges: [threw, error, value]
hasStagedChanges(outcome) ==
    IF outcome.resolved THEN [threw |-> FALSE, error |-> NoThrown, value |-> FALSE]
    ELSE IF getExitCode(outcome) = 1 THEN [threw |-> FALSE, error |-> NoThrown, value |-> TRUE]
    ELSE [threw |-> TRUE, error |-> outcome.error, value |-> FALSE]

(***************************************************************************)
(* The inputs of a run: the options, and what the collaborators answer.    *)
(***************************************************************************)
MaxRetries == 2

MaxGenerations == 3

DefaultMaxChars == 16000

DefaultModel == <<"l","l","a","m","a","3">>

ForcedTypes == {Null, <<"f","i","x">>}

ForcedScopes == {Null, <<"c","o","r","e"," ","a","p","i">>}

WorkflowOptions ==
    [model : {DefaultModel}, maxChars : {DefaultMaxChars}, type : ForcedTypes,
     scope : ForcedScopes, dryRun : BOOLEAN, noVerify : BOOLEAN, ci : BOOLEAN,
     allowInvalid : BOOLEAN, retries : 0..MaxRetries]

\* values a collaborator may throw that are neither WorkflowError nor OllamaError
OtherThrown ==
    {Thrown("Error", Phrase("boom")), Thrown("Error", <<" ">>),
     Thrown("string", <<"b","o","o","m">>), Thrown("other", <<>>)}

GitRejections ==
    {ExecaOutcome(FALSE, 1, Thrown("Error", Phrase("Command failed with exit code 1")), <<>>),
     ExecaOutcome(FALSE, 128, Thrown("Error", Phrase("Command failed with exit code 128")), <<>>)}
    \cup {ExecaOutcome(FALSE, NoExitCode, e, <<>>) : e \in OtherThrown}

GitResolved(stdout) == ExecaOutcome(TRUE, 0, NoThrown, stdout)

\* diff --git a/a.md b/a.md
DocsDiff ==
    <<"d","i","f","f"," ","-","-","g","i","t"," ","a","/","a",".","m","d"," ","b","/","a",".","m","d",
      "\n","+","x">>

\* diff --git a/a.ts b/a.ts
SourceDiff ==
    <<"d","i","f","f"," ","-","-","g","i","t"," ","a","/","a",".","t","s"," ","b","/","a",".","t","s",
      "\n","+","x">>

NoResponse(kind, thrown) == FetchOutcome(kind, NoStatus, <<>>, FALSE, Null, <<>>, thrown)

FetchFailures ==
    {NoResponse("abort", NoThrown), NoResponse("typeError", NoThrown)}
    \cup {NoResponse("throw", e) : e \in OtherThrown}

ErrorResponse(status, text) == FetchOutcome("response", status, text, FALSE, Null, <<>>, NoThrown)

ErrorResponses ==
    {ErrorResponse(500, Phrase("temporary failure")), ErrorResponse(503, Phrase("down")),
     ErrorResponse(400, Phrase("bad request")), ErrorResponse(404, <<>>),
     ErrorResponse(404, <<"M","o","d","e","l"," ","n","o","t"," ","f","o","u","n","d">>)}

TagsResponse(jsonOk, models) == FetchOutcome("response", 200, <<>>, jsonOk, Null, models, NoThrown)

\* llama3:latest, mistral:latest
TagsOutcomes ==
    FetchFailures \cup ErrorResponses
    \cup {TagsResponse(FALSE, <<>>), TagsResponse(TRUE, <<>>),
          TagsResponse(TRUE, << <<"l","l","a","m","a","3",":","l","a","t","e","s","t">> >>),
          TagsResponse(TRUE, << <<"m","i","s","t","r","a","l",":","l","a","t","e","s","t">>,
                                <<" ","L","l","a","m","a","3"," ">> >>),
          TagsResponse(TRUE, << <<"m","i","s","t","r","a","l",":","l","a","t","e","s","t">> >>)}

ChatResponse(jsonOk, content) == FetchOutcome("response", 200, <<>>, jsonOk, content, <<>>, NoThrown)

\* {"message":"feat: add x"}, {"message":"update readme."}, and wip as plain
\* text with a line end
ChatContents ==
    {<<"{","\"","m","e","s","s","a","g","e","\"",":","\"","f","e","a","t",":"," ","a","d","d"," ","x","\"","}">>,
     <<"{","\"","m","e","s","s","a","g","e","\"",":","\"","u","p","d","a","t","e"," ","r","e","a","d","m","e",".","\"","}">>,
     <<"w","i","p","\n">>}

ChatOutcomes ==
    FetchFailures \cup ErrorResponses
    \cup {ChatResponse(FALSE, Null), ChatResponse(TRUE, Null), ChatResponse(TRUE, <<" ">>)}
    \cup {ChatResponse(TRUE, c) : c \in ChatContents}

\* what the select prompt resolves to; undefined when it is dismissed
PromptActions == {"accept", "edit", "regen", "dry", "cancel", "undefined"}

\* what the text prompt resolves to: Null when it is dismissed
EditedMessages ==
    {Null, <<>>, <<" ">>, <<"w","i","p">>, <<"f","i","x",":"," ","y"," ">>,
     <<"f","e","a","t",":"," ","a","d","d"," ","x">>}

\* no call of a text function
NoArg == [fn |-> "none"]

NoRet == [fn |-> "none"]

(***************************************************************************)
(* The state of one run of runWorkflow.                                    *)
(***************************************************************************)
VARIABLES
    opts,           \* the WorkflowOptions of the run
    pc,             \* the call the run is waiting on, "done" after it returned
    diff,           \* the clamped staged diff
    attempt,        \* the loop variable of ollamaChat
    lastError,      \* lastError of ollamaChat
    candidate,      \* the candidate of the current iteration
    finalMessage,   \* the message handed to commitMessage
    results,        \* the results runWorkflow returned
    failedAt,       \* the call whose failure ended the run, "none" otherwise
    seen,           \* what the checks of the preconditions met
    generateCalls,  \* the calls of generateCandidate so far
    call,           \* the attempts, sleeps and outcome of the current ollamaChat call
    promptCalls,    \* the calls of prompts so far
    commits,        \* the calls of gitCommit so far: message and noVerify
    rejection,      \* the candidate refused for commit since the last prompt, if any
    caught,         \* the value the catch block of runWorkflow caught, if any
    answer,         \* what the last prompt resolved to, "none" before the first
    edited,         \* the text the text prompt of this iteration resolved to, if any
    arg,            \* the arguments of a call of one of the text functions
    ret             \* what that call returned

vars ==
    <<opts, pc, diff, attempt, lastError, candidate, finalMessage, results, failedAt, seen,
      generateCalls, call, promptCalls, commits, rejection, caught, answer, edited, arg,
      ret>>

NoCandidate == [message |-> Null, source |-> "none", validation |-> Invalid("none")]

IdleCall ==
    [status |-> "idle", attempts |-> 0, transient |-> 0, sleeps |-> 0, sleptMs |-> 0,
     last |-> "none", lastStatus |-> NoStatus, served |-> Null, content |-> Null]

NoRejection == [pending |-> FALSE, candidate |-> NoCandidate, generateCalls |-> 0]

Init ==
    /\ opts \in WorkflowOptions
    /\ pc = "isGitRepo"
    /\ diff = <<>>
    /\ attempt = 0
    /\ lastError = NoThrown
    /\ candidate = NoCandidate
    /\ finalMessage = Null
    /\ results = <<>>
    /\ failedAt = "none"
    /\ seen = [repo |-> "unknown", staged |-> "unknown", model |-> "unknown"]
    /\ generateCalls = 0
    /\ call = IdleCall
    /\ promptCalls = 0
    /\ commits = <<>>
    /\ rejection = NoRejection
    /\ caught = NoThrown
    /\ answer = "none"
    /\ edited = Null
    /\ arg = NoArg
    /\ ret = NoRet

\* runWorkflow returns result; at names the call that failed, "none" on success
Finish(result, at) ==
    /\ results' = Append(results, result)
    /\ failedAt' = at
    /\ pc' = "done"
    /\ UNCHANGED caught

\* Faulty variant of the catch block: the error leaves runWorkflow and no
\* result is returned.
Escape(error, at) ==
    /\ failedAt' = at
    /\ pc' = "done"
    /\ caught' = error
    /\ UNCHANGED results

\* the catch block of runWorkflow
Catch(error, at) ==
    /\ results' = Append(results, toErrorResult(error))
    /\ failedAt' = at
    /\ pc' = "done"
    /\ caught' = error

\* Faulty variant of the loop: the pipeline is entered twice for one
\* iteration.
GenerateTwice ==
    /\ generateCalls' = generateCalls + 2
    /\ attempt' = 0
    /\ lastError' = NoThrown
    /\ call' = [IdleCall EXCEPT !.status = "running"]
    /\ pc' = "chat"

\* generateCandidate is entered: ollamaChat starts its loop
StartGenerate ==
    /\ generateCalls' = generateCalls + 1
    /\ attempt' = 0
    /\ lastError' = NoThrown
    /\ call' = [IdleCall EXCEPT !.status = "running"]
    /\ pc' = "chat"

\* runWorkflow, lines 479-481
IsGitRepo ==
    /\ pc = "isGitRepo"
    /\ \E outcome \in {GitResolved(<<>>)} \cup GitRejections :
         /\ seen' = [seen EXCEPT !.repo = IF outcome.resolved THEN "yes" ELSE "no"]
         /\ IF isGitRepo(outcome)
            THEN pc' = "hasStagedChanges" /\ UNCHANGED <<results, failedAt, caught>>
            ELSE Catch(WorkflowError(ExitGitContextError, Phrase("Not a git repository."), Null),
                       "isGitRepo")
    /\ UNCHANGED <<opts, diff, attempt, lastError, candidate, finalMessage, generateCalls, call,
                   promptCalls, commits, rejection, answer, edited, arg, ret>>

\* runWorkflow, lines 483-488
HasStagedChanges ==
    /\ pc = "hasStagedChanges"
    /\ \E outcome \in {GitResolved(<<>>)} \cup GitRejections :
         LET staged == hasStagedChanges(outcome)
         IN /\ seen' = [seen EXCEPT !.staged = IF outcome.resolved THEN "no"
                                               ELSE IF outcome.exitCode = 1 THEN "yes"
                                               ELSE "error"]
            /\ IF staged.threw THEN Catch(staged.error, "hasStagedChanges")
               ELSE IF ~staged.value
               THEN Catch(WorkflowError(ExitGitContextError,
                                        Phrase("No staged changes. Stage files first: git add <files>."),
                                        Null),
                          "hasStagedChanges")
               ELSE pc' = "ensureLocalModel" /\ UNCHANGED <<results, failedAt, caught>>
    /\ UNCHANGED <<opts, diff, attempt, lastError, candidate, finalMessage, generateCalls, call,
                   promptCalls, commits, rejection, answer, edited, arg, ret>>

\* runWorkflow, line 490
EnsureLocalModel ==
    /\ pc = "ensureLocalModel"
    /\ \E outcome \in TagsOutcomes :
         LET ensured == ensureLocalModel(opts.model, outcome)
         IN /\ seen' = [seen EXCEPT !.model = IF ensured.threw THEN "failed" ELSE "ok"]
            /\ IF ensured.threw THEN Catch(ensured.error, "ensureLocalModel")
               ELSE pc' = "getStagedDiff" /\ UNCHANGED <<results, failedAt, caught>>
    /\ UNCHANGED <<opts, diff, attempt, lastError, candidate, finalMessage, generateCalls,
                   call, promptCalls, commits, rejection, answer, edited, arg, ret>>

\* runWorkflow, lines 492-499, up to the first call of ollamaChat
GetStagedDiff ==
    /\ pc = "getStagedDiff"
    /\ \E outcome \in {GitResolved(d) : d \in {DocsDiff, SourceDiff}} \cup GitRejections :
         IF outcome.resolved
         THEN /\ diff' = clampDiff(outcome.stdout, opts.maxChars)
              /\ StartGenerate
              /\ UNCHANGED <<results, failedAt, caught>>
         ELSE /\ Catch(outcome.error, "getStagedDiff")
              /\ UNCHANGED <<diff, attempt, lastError, generateCalls, call>>
    /\ UNCHANGED <<opts, candidate, finalMessage, seen, promptCalls, commits, rejection, answer, edited,
                   arg, ret>>

\* how a fetch outcome counts for the retry policy: "success", "transient"
\* (no answer in time, no connection, a 5xx status) or "fatal"
OutcomeClass(outcome) ==
    IF outcome.kind \in {"abort", "typeError"} THEN "transient"
    ELSE IF outcome.kind = "throw" THEN "fatal"
    ELSE IF outcome.status >= 500 THEN "transient"
    ELSE IF ResponseOk(outcome.status) /\ outcome.jsonOk /\ outcome.content # Null
            /\ Trim(outcome.content) # <<>> THEN "success"
    ELSE "fatal"

\* the record of the current ollamaChat call after one more attempt: served is
\* the content of the response, content what ollamaChat returned
Attempted(outcome, status, slept, content) ==
    [call EXCEPT !.status = status,
                 !.attempts = @ + 1,
                 !.transient = IF OutcomeClass(outcome) = "transient" THEN @ + 1 ELSE @,
                 !.sleeps = IF slept THEN @ + 1 ELSE @,
                 !.sleptMs = IF slept THEN @ + BackoffMs(attempt) ELSE @,
                 !.last = OutcomeClass(outcome),
                 !.lastStatus = outcome.status,
                 !.served = outcome.content,
                 !.content = content]

\* runInteractive, lines 458-465: the message is committed, or refused and the
\* loop continues
Decide(message) ==
    IF ~validateMessage(message).ok /\ ~opts.allowInvalid
    THEN /\ generateCalls < MaxGenerations
         /\ StartGenerate
         /\ rejection' = [pending |-> TRUE, candidate |-> candidate,
                          generateCalls |-> generateCalls]
         /\ UNCHANGED <<finalMessage, results, failedAt, caught>>
    ELSE /\ finalMessage' = message
         /\ pc' = "commit"
         /\ rejection' = NoRejection
         /\ UNCHANGED <<attempt, lastError, generateCalls, call, results, failedAt, caught>>

\* runNonInteractive, lines 358-371, and runInteractive, lines 387-397, once
\* generateCandidate returned c
Dispose(c) ==
    IF NonInteractive(opts)
    THEN IF ensureValidThrows(c, opts.allowInvalid)
         THEN Catch(InvalidAiOutputError(c), "ensureValid") /\ UNCHANGED finalMessage
         ELSE IF opts.dryRun
         THEN Finish(SuccessResult(c.message, c.source, FALSE, FALSE), "none")
              /\ UNCHANGED finalMessage
         ELSE pc' = "commit" /\ finalMessage' = c.message /\ UNCHANGED <<results, failedAt, caught>>
    ELSE pc' = "prompt" /\ UNCHANGED <<finalMessage, results, failedAt, caught>>

\* one iteration of the loop of ollamaChat, and what follows its return
ChatAttempt ==
    /\ pc = "chat"
    /\ attempt <= opts.retries
    /\ \E outcome \in ChatOutcomes :
         LET tried == chatAttempt(outcome)
             normalized == normalizeOllamaError(tried.error)
         IN IF ~tried.threw
            THEN /\ call' = Attempted(outcome, "returned", FALSE, tried.content)
                 /\ candidate' = generateCandidate(tried.content, diff, opts)
                 /\ Dispose(candidate')
                 /\ UNCHANGED <<attempt, lastError>>
            ELSE IF attempt < opts.retries /\ shouldRetry(normalized)
            THEN /\ call' = Attempted(outcome, "running", TRUE, Null)
                 /\ lastError' = normalized
                 /\ attempt' = attempt + 1
                 /\ UNCHANGED <<pc, candidate, finalMessage, results, failedAt, caught>>
            ELSE /\ call' = Attempted(outcome, "threw", FALSE, Null)
                 /\ lastError' = normalized
                 /\ Catch(normalized, "generate")
                 /\ UNCHANGED <<attempt, candidate, finalMessage>>
    /\ UNCHANGED <<opts, diff, seen, generateCalls, promptCalls, commits, rejection, answer, edited,
                   arg, ret>>

\* Faulty variant of the cancel test: a dismissed prompt is not a cancel.
CancelOnly(action) == action = "cancel"

\* !action || action === "cancel"
IsCancel(action) == action \in {"cancel", "undefined"}

\* runInteractive, lines 397-435: the select prompt and the action chosen; an
\* action that is none of cancel, regen, dry and edit goes on to the commit
Prompt ==
    /\ pc = "prompt"
    /\ promptCalls' = promptCalls + 1
    /\ \/ \E error \in OtherThrown :
            /\ Catch(error, "prompt")
            /\ rejection' = NoRejection
            /\ UNCHANGED <<attempt, lastError, finalMessage, generateCalls, call, answer, edited>>
       \/ \E action \in PromptActions :
            /\ answer' = action
            /\ edited' = Null
            /\ CASE IsCancel(action) ->
                   /\ Finish(SuccessResult(candidate.message, candidate.source, FALSE, TRUE), "none")
                   /\ rejection' = NoRejection
                   /\ UNCHANGED <<attempt, lastError, finalMessage, generateCalls, call>>
              [] action = "regen" ->
                   /\ generateCalls < MaxGenerations
                   /\ StartGenerate
                   /\ rejection' = NoRejection
                   /\ UNCHANGED <<finalMessage, results, failedAt, caught>>
              [] action = "dry" ->
                   /\ Finish(SuccessResult(candidate.message, candidate.source, FALSE, FALSE), "none")
                   /\ rejection' = NoRejection
                   /\ UNCHANGED <<attempt, lastError, finalMessage, generateCalls, call>>
              [] action = "edit" ->
                   /\ pc' = "edit"
                   /\ rejection' = NoRejection
                   /\ UNCHANGED <<attempt, lastError, finalMessage, generateCalls, call, results,
                                  failedAt, caught>>
              [] OTHER -> Decide(candidate.message)
    /\ UNCHANGED <<opts, diff, candidate, seen, commits, arg, ret>>

\* runInteractive, lines 437-456: the text prompt
Edit ==
    /\ pc = "edit"
    /\ promptCalls' = promptCalls + 1
    /\ \/ \E error \in OtherThrown :
            /\ Catch(error, "edit")
            /\ UNCHANGED <<attempt, lastError, finalMessage, generateCalls, call, rejection,
                           answer, edited>>
       \/ \E editedMessage \in EditedMessages :
            IF editedMessage = Null \/ editedMessage = <<>>
            THEN /\ Finish(SuccessResult(candidate.message, candidate.source, FALSE, TRUE), "none")
                 /\ answer' = "empty"
                 /\ edited' = editedMessage
                 /\ UNCHANGED <<attempt, lastError, finalMessage, generateCalls, call, rejection>>
            ELSE /\ Decide(normalizeMessage(editedMessage))
                 /\ answer' = "edited"
                 /\ edited' = editedMessage
    /\ UNCHANGED <<opts, diff, candidate, seen, commits, arg, ret>>

\* Faulty variant of the commit step: a rejected gitCommit is tried again.
CommitRetried ==
    /\ pc = "commit"
    /\ commits' = Append(commits, [message |-> finalMessage, noVerify |-> opts.noVerify])
    /\ \E outcome \in {GitResolved(<<>>)} \cup GitRejections :
         IF outcome.resolved
         THEN Finish(SuccessResult(finalMessage, candidate.source, TRUE, FALSE), "none")
         ELSE UNCHANGED <<pc, results, failedAt, caught>>
    /\ UNCHANGED <<opts, diff, attempt, lastError, candidate, finalMessage, seen, generateCalls,
                   call, promptCalls, rejection, answer, edited, arg, ret>>

\* Faulty variant of the commit step: the loop of runInteractive goes on
\* after the commit instead of returning.
CommitAndContinue ==
    /\ pc = "commit"
    /\ commits' = Append(commits, [message |-> finalMessage, noVerify |-> opts.noVerify])
    /\ generateCalls < MaxGenerations
    /\ StartGenerate
    /\ UNCHANGED <<opts, diff, candidate, finalMessage, results, failedAt, caught, seen,
                   promptCalls, rejection, answer, edited, arg, ret>>

\* Faulty variant of the commit step: the result keeps the source of the
\* candidate whatever message was committed.
CommitKeepsSource ==
    /\ pc = "commit"
    /\ commits' = Append(commits, [message |-> finalMessage, noVerify |-> opts.noVerify])
    /\ \E outcome \in {GitResolved(<<>>)} \cup GitRejections :
         IF outcome.resolved
         THEN Finish(SuccessResult(finalMessage, candidate.source, TRUE, FALSE), "none")
         ELSE Catch(CommitError(outcome.error), "commit")
    /\ UNCHANGED <<opts, diff, attempt, lastError, candidate, finalMessage, seen, generateCalls,
                   call, promptCalls, rejection, answer, edited, arg, ret>>

\* Faulty variant of the commit step: the message of the candidate is
\* handed to gitCommit, not the final message.
CommitsCandidate ==
    /\ pc = "commit"
    /\ commits' = Append(commits, [message |-> candidate.message, noVerify |-> opts.noVerify])
    /\ \E outcome \in {GitResolved(<<>>)} \cup GitRejections :
         IF outcome.resolved
         THEN Finish(SuccessResult(finalMessage,
                                   IF finalMessage = candidate.message THEN candidate.source
                                   ELSE "repaired",
                                   TRUE, FALSE),
                     "none")
         ELSE Catch(CommitError(outcome.error), "commit")
    /\ UNCHANGED <<opts, diff, attempt, lastError, candidate, finalMessage, seen, generateCalls,
                   call, promptCalls, rejection, answer, edited, arg, ret>>

\* commitMessage and the return that follows it
Commit ==
    /\ pc = "commit"
    /\ commits' = Append(commits, [message |-> finalMessage, noVerify |-> opts.noVerify])
    /\ \E outcome \in {GitResolved(<<>>)} \cup GitRejections :
         IF outcome.resolved
         THEN Finish(SuccessResult(finalMessage,
                                   IF finalMessage = candidate.message THEN candidate.source
                                   ELSE "repaired",
                                   TRUE, FALSE),
                     "none")
         ELSE Catch(CommitError(outcome.error), "commit")
    /\ UNCHANGED <<opts, diff, attempt, lastError, candidate, finalMessage, seen, generateCalls,
                   call, promptCalls, rejection, answer, edited, arg, ret>>

Next ==
    \/ IsGitRepo
    \/ HasStagedChanges
    \/ EnsureLocalModel
    \/ GetStagedDiff
    \/ ChatAttempt
    \/ Prompt
    \/ Edit
    \/ Commit

Spec == Init /\ [][Next]_vars

\* the runs without --type and --scope, which only reach the text functions
LiveInit == Init /\ opts.type = Null /\ opts.scope = Null

\* every call of a collaborator returns or fails: a run that can take a step
\* takes one
LiveSpec == LiveInit /\ [][Next]_vars /\ WF_vars(Next)

(***************************************************************************)
(* The text functions called on their own: a call is drawn from the        *)
(* arguments below and one step applies the function.                      *)
(***************************************************************************)
\* c repeated n times
Repeat(c, n) == [i \in 1..n |-> c]

\* subjects by composition: a type word, a scope, a '!', a separator and a
\* description; the descriptions are short, with a double space and a
\* period, empty, and of the lengths that bring "feat: ..." to 72 and to 73
\* characters
Subjects ==
    {t \o s \o b \o p \o d :
        t \in {<<"f","e","a","t">>, <<"c","i">>, <<"w","i","p">>, <<"F","i","x">>, <<>>},
        s \in {<<>>, <<"(","a","p","i",")">>, <<"("," ","a"," ",")">>},
        b \in {<<>>, <<"!">>},
        p \in {<<":"," ">>, <<":">>, <<":","\t">>, <<" ","-"," ">>},
        d \in {<<"a","d","d"," ","x">>, <<"a","d","d"," "," ","x",".">>, <<>>,
               Repeat("x", 66), Repeat("x", 67)}}

\* the subjects alone and with a body, and: the empty message, blank lines
\* only, a first line of a form feed, fenced and quoted messages, a fence
\* inside, \r\n line ends, a loose header, a subject without a type, a
\* subject ending in two periods, a subject in two kinds of quotes, a type
\* that is not allowed before one that is
Messages ==
    {s \o b : s \in Subjects, b \in {<<>>, <<"\n","\n","b","o","d","y">>}}
    \cup
    {<<>>,
     <<" ","\n"," ">>,
     <<"\f","\n","f","e","a","t",":"," ","x">>,
     Fence \o <<"\n","f","e","a","t",":"," ","a","d","d"," ","x","\n">> \o Fence,
     <<"f","e","a","t",":"," ","a","d","d"," ","x","\n">> \o Fence,
     <<"\"","f","e","a","t",":"," ","a","d","d"," ","x","\"">>,
     <<"f","e","a","t",":"," ","a","d","d"," ","x"," ","\r","\n">>
       \o <<"\r","\n","b","o","d","y","\r","\n">>,
     <<"F","i","x"," ","-"," ","t","h","i","n","g">>,
     <<"u","p","d","a","t","e"," ","r","e","a","d","m","e",".">>,
     <<"a","d","d"," ","x",".",".">>,
     <<"\"","'","f","i","x",":"," ","y",".","'","\"">>,
     <<"w","i","p",":"," ","f","e","a","t",":"," ","a","d","d"," ","x">>}

\* no diff, documentation only, source only, and
\* diff --git a/a.test.ts b/a.test.ts
TextDiffs ==
    {<<>>, DocsDiff, SourceDiff,
     <<"d","i","f","f"," ","-","-","g","i","t"," ","a","/","a",".","t","e","s","t",".","t","s"," ">>
       \o <<"b","/","a",".","t","e","s","t",".","t","s","\n","+","x">>}

\* JSON.stringify of a text: the string literal that parses back to it
RECURSIVE JsonEscape(_)
JsonEscape(text) ==
    IF text = <<>> THEN <<>>
    ELSE (CASE Head(text) = "\"" -> <<"\\", "\"">>
            [] Head(text) = "\\" -> <<"\\", "\\">>
            [] Head(text) = "\n" -> <<"\\", "n">>
            [] Head(text) = "\t" -> <<"\\", "t">>
            [] Head(text) = "\r" -> <<"\\", "r">>
            [] OTHER -> <<Head(text)>>) \o JsonEscape(Tail(text))

JsonString(text) == <<"\"">> \o JsonEscape(text) \o <<"\"">>

ModelOutput(kind, payload) ==
    CASE kind = "json" ->
           <<"{","\"","m","e","s","s","a","g","e","\"",":">> \o JsonString(payload) \o <<"}">>
      [] kind = "jsonMembers" ->
           <<"{","\"","a","\"",":","1",",","\"","m","e","s","s","a","g","e","\"",":">>
           \o JsonString(payload)
           \o <<",","\"","b","\"",":","[","t","r","u","e",",","n","u","l","l","]","}">>
      [] kind = "fencedJson" ->
           Fence \o <<"j","s","o","n","\n","{"," ","\"","m","e","s","s","a","g","e","\""," ",":"," ">>
           \o JsonString(payload) \o <<" ","}","\n">> \o Fence
      [] kind = "embedded" ->
           <<"H","e","r","e"," ","y","o","u"," ","g","o",":"," ">>
           \o <<"{","\"","m","e","s","s","a","g","e","\"",":">> \o JsonString(payload)
           \o <<"}"," ","d","o","n","e">>
      [] kind = "array" ->
           <<"[","{","\"","m","e","s","s","a","g","e","\"",":">> \o JsonString(payload) \o <<"}","]">>
      [] kind = "nonString" -> <<"{","\"","m","e","s","s","a","g","e","\"",":","1","2","3","}">>
      [] kind = "noMessage" -> <<"{","\"","m","s","g","\"",":">> \o JsonString(payload) \o <<"}">>
      [] kind = "broken" ->
           <<"{","\"","m","e","s","s","a","g","e","\"",":">> \o JsonString(payload)
      [] kind = "plain" -> <<" ">> \o payload \o <<"\n">>
      [] kind = "fenced" -> Fence \o <<"t","x","t","\n">> \o payload \o <<"\n">> \o Fence

\* a text in one, two and three fences
Fenced(text, depth) ==
    IF depth = 1 THEN Fence \o text \o Fence
    ELSE IF depth = 2 THEN Fence \o <<"\n">> \o Fence \o text \o Fence \o <<"\n">> \o Fence
    ELSE Fence \o <<"\n">> \o Fence \o <<"\n">> \o Fence \o text \o Fence \o <<"\n">> \o Fence
         \o <<"\n">> \o Fence

\* paths of changed files: documentation, source, documentation that is a
\* test as well (by its suffix, by its directory), files under a test directory at the top and below it, a
\* test by its suffix, ci, ci that is documentation as well, build files, and
\* a Dockerfile at the top
ChangedPaths ==
    {<<"R","E","A","D","M","E",".","m","d">>,
     <<"s","r","c","/","a",".","t","s">>,
     <<"d","o","c","s","/","a",".","t","e","s","t",".","t","s">>,
     <<"s","r","c","/","t","e","s","t","s","/","g","u","i","d","e",".","m","d">>,
     <<"t","e","s","t","s","/","h","e","l","p","e","r",".","t","s">>,
     <<"t","e","s","t","/","a",".","t","s">>,
     <<"s","r","c","/","t","e","s","t","s","/","a",".","t","s">>,
     <<"a",".","s","p","e","c",".","j","s">>,
     <<".","g","i","t","h","u","b","/","w","o","r","k","f","l","o","w","s","/","c","i",".","y","m","l">>,
     <<".","g","i","t","h","u","b","/","w","o","r","k","f","l","o","w","s","/","R","E","A","D","M","E",".","m","d">>,
     <<"p","a","c","k","a","g","e",".","j","s","o","n">>,
     <<"p","k","g","/","D","o","c","k","e","r","f","i","l","e">>,
     <<"D","o","c","k","e","r","f","i","l","e">>}

\* the diff of a sequence of changed files: one header line for each
DiffOf(paths) ==
    JoinLines([i \in 1..Len(paths) |->
                  DiffHeader \o paths[i] \o <<" ","b","/">> \o paths[i]])

\* a text of n characters in which every character tells its position
Numbered(n) == [i \in 1..n |-> <<"0","1","2","3","4","5","6","7","8","9">>[(i % 10) + 1]]

\* the largest maxChars of a call of clampDiff
MaxMaxChars == 60

\* the calls: for generateCandidate the content of the chat response is
\* drawn in place of the call of ollamaChat
TextArgs ==
    [fn : {"validateMessage"}, message : Messages]
    \cup [fn : {"extractMessageFromModelOutput"},
          kind : {"json", "jsonMembers", "fencedJson", "embedded", "array", "nonString",
                  "noMessage", "broken", "plain", "fenced"},
          payload : {<<"f","e","a","t",":"," ","a","d","d"," ","x">>,
                     <<"f","i","x",":"," ","y","\n","\n","b","o","d","y">>,
                     <<"s","a","y"," ","\"","h","i","\""," ","\\"," ","o","k">>,
                     <<" ","w","i","p"," ">>,
                     Fence \o <<"f","e","a","t",":"," ","a","d","d"," ","x">> \o Fence,
                     <<>>}]
    \cup [fn : {"repairMessage"}, message : Messages, diff : TextDiffs,
          forcedType : ForcedTypes, scope : ForcedScopes]
    \cup [fn : {"generateCandidate"},
          content : ChatContents
                    \cup {Fenced(<<"f","e","a","t",":"," ","a","d","d"," ","x">>, depth) :
                             depth \in 1..3}
                    \cup {ModelOutput(kind, <<"f","i","x",":"," ","y","\n","\n","b","o","d","y">>) :
                             kind \in {"json", "embedded"}},
          diff : TextDiffs, forcedType : ForcedTypes, scope : ForcedScopes]
    \cup [fn : {"inferTypeFromDiff"},
          diff : {<<>>, <<"+","x","\n","-","y">>,
                  DiffHeader \o <<"s","r","c","/","a",".","t","s">> \o <<" ","b","/">> \o <<"R","E","A","D","M","E",".","m","d">>}
                 \cup {DiffOf(<<p>>) \o <<"\n","+","x">> : p \in ChangedPaths}
                 \cup {DiffOf(<<p, q>>) : p \in ChangedPaths, q \in ChangedPaths}]
    \cup [fn : {"clampDiff"},
          diff : {Numbered(n) : n \in {0, 10, 26, 45, 46, 47, 48, 60, 61, 80}},
          maxChars : 0..MaxMaxChars]

\* no run of the workflow: only arg and ret change
TextInit ==
    /\ opts \in {o \in WorkflowOptions : o.retries = 0 /\ o.type = Null /\ o.scope = Null
                                         /\ ~o.dryRun /\ ~o.noVerify /\ ~o.ci /\ ~o.allowInvalid}
    /\ pc = "text"
    /\ diff = <<>>
    /\ attempt = 0
    /\ lastError = NoThrown
    /\ candidate = NoCandidate
    /\ finalMessage = Null
    /\ results = <<>>
    /\ failedAt = "none"
    /\ seen = [repo |-> "unknown", staged |-> "unknown", model |-> "unknown"]
    /\ generateCalls = 0
    /\ call = IdleCall
    /\ promptCalls = 0
    /\ commits = <<>>
    /\ rejection = NoRejection
    /\ caught = NoThrown
    /\ answer = "none"
    /\ edited = Null
    /\ arg \in TextArgs
    /\ ret = NoRet

CallValidate ==
    /\ arg.fn = "validateMessage"
    /\ ret = NoRet
    /\ ret' = [fn |-> arg.fn, value |-> validateMessage(arg.message)]
    /\ UNCHANGED <<opts, pc, diff, attempt, lastError, candidate, finalMessage, results, failedAt,
                 seen, generateCalls, call, promptCalls, commits, rejection, caught, answer, edited, arg>>

CallExtract ==
    /\ arg.fn = "extractMessageFromModelOutput"
    /\ ret = NoRet
    /\ ret' = [fn |-> arg.fn,
               value |-> extractMessageFromModelOutput(ModelOutput(arg.kind, arg.payload))]
    /\ UNCHANGED <<opts, pc, diff, attempt, lastError, candidate, finalMessage, results, failedAt,
                 seen, generateCalls, call, promptCalls, commits, rejection, caught, answer, edited, arg>>

CallRepair ==
    /\ arg.fn = "repairMessage"
    /\ ret = NoRet
    /\ ret' = [fn |-> arg.fn,
               value |-> repairMessage(arg.message, arg.diff, arg.forcedType, arg.scope)]
    /\ UNCHANGED <<opts, pc, diff, attempt, lastError, candidate, finalMessage, results, failedAt,
                 seen, generateCalls, call, promptCalls, commits, rejection, caught, answer, edited, arg>>

CallGenerate ==
    /\ arg.fn = "generateCandidate"
    /\ ret = NoRet
    /\ ret' = [fn |-> arg.fn,
               value |-> generateCandidate(arg.content, arg.diff,
                                           [type |-> arg.forcedType, scope |-> arg.scope])]
    /\ UNCHANGED <<opts, pc, diff, attempt, lastError, candidate, finalMessage, results, failedAt,
                 seen, generateCalls, call, promptCalls, commits, rejection, caught, answer, edited, arg>>

CallInfer ==
    /\ arg.fn = "inferTypeFromDiff"
    /\ ret = NoRet
    /\ ret' = [fn |-> arg.fn, value |-> inferTypeFromDiff(arg.diff)]
    /\ UNCHANGED <<opts, pc, diff, attempt, lastError, candidate, finalMessage, results, failedAt,
                 seen, generateCalls, call, promptCalls, commits, rejection, caught, answer, edited,
                 arg>>

CallClamp ==
    /\ arg.fn = "clampDiff"
    /\ ret = NoRet
    /\ ret' = [fn |-> arg.fn, value |-> clampDiff(arg.diff, arg.maxChars)]
    /\ UNCHANGED <<opts, pc, diff, attempt, lastError, candidate, finalMessage, results, failedAt,
                 seen, generateCalls, call, promptCalls, commits, rejection, caught, answer, edited,
                 arg>>

TextNext ==
    \/ CallValidate
    \/ CallExtract
    \/ CallRepair
    \/ CallGenerate
    \/ CallInfer
    \/ CallClamp

TextSpec == TextInit /\ [][TextNext]_vars

(***************************************************************************)
(* Properties of a run.                                                    *)
(***************************************************************************)
\* runWorkflow returned, with one result
Returned == pc = "done" /\ Len(results) = 1

\* the last call of generateCandidate returned the current candidate
Generated == call.status = "returned"

\* the candidate passes the validity gate of the run
PassesGate == validateMessage(candidate.message).ok \/ opts.allowInvalid

\* C1: when allowInvalid is false, in every mode and after any sequence of
\* interactive actions, every message gitCommit was called with (and the one
\* it is about to be called with) is one validateMessage accepts.
NoInvalidCommit ==
    ~opts.allowInvalid =>
        /\ \A i \in 1..Len(commits) : validateMessage(commits[i].message).ok
        /\ pc = "commit" => validateMessage(finalMessage).ok

\* an interactive run without the override that committed after more than one
\* generation and an edit
NoInvalidCommitWitness ==
    /\ ~opts.allowInvalid
    /\ ~NonInteractive(opts)
    /\ Len(commits) = 1
    /\ generateCalls > 1
    /\ commits[1].message # candidate.message

\* C2: in non-interactive mode the run returns exit code 4 exactly when the
\* generated candidate fails validateMessage and allowInvalid is false; a
\* candidate that passes the gate, valid or invalid under the override, is
\* returned uncommitted under dryRun and is handed to gitCommit otherwise.
InvalidOutputExit ==
    NonInteractive(opts) =>
        /\ Returned =>
              (results[1].exitCode = ExitInvalidAiOutput
                 <=> (Generated /\ ~validateMessage(candidate.message).ok /\ ~opts.allowInvalid))
        /\ (Generated /\ PassesGate) =>
              IF opts.dryRun
              THEN results = <<SuccessResult(candidate.message, candidate.source, FALSE, FALSE)>>
              ELSE \/ pc = "commit" /\ finalMessage = candidate.message /\ commits = <<>>
                   \/ /\ pc = "done"
                      /\ commits = <<[message |-> candidate.message, noVerify |-> opts.noVerify]>>

\* a non-interactive run that returned exit code 4
InvalidOutputExitWitness ==
    /\ NonInteractive(opts)
    /\ Returned
    /\ Generated
    /\ results[1].exitCode = ExitInvalidAiOutput

\* C3: gitCommit is called at most once in a run.
AtMostOneCommit == Len(commits) <= 1

\* an interactive run that called gitCommit after several prompts and a
\* regeneration
AtMostOneCommitWitness ==
    /\ Returned
    /\ Len(commits) = 1
    /\ promptCalls > 2
    /\ generateCalls > 1

\* C4: when the repository check fails, or nothing is staged (or the staged
\* check throws), or the model check fails, the run has returned a failure
\* and made no call of ollamaChat, of prompts or of gitCommit.
PreconditionShortCircuit ==
    (seen.repo = "no" \/ seen.staged \in {"no", "error"} \/ seen.model = "failed") =>
        /\ Returned
        /\ ~results[1].ok
        /\ generateCalls = 0
        /\ call = IdleCall
        /\ promptCalls = 0
        /\ commits = <<>>

\* a run that ended at the model check
PreconditionShortCircuitWitness ==
    /\ seen.model = "failed"
    /\ failedAt = "ensureLocalModel"
    /\ Returned

\* C5: outside a repository, or with nothing staged, the run returns exit
\* code 2 with code GIT_CONTEXT_ERROR, whatever the options are, and the
\* backend is not asked.
GitContextFailure ==
    (seen.repo = "no" \/ seen.staged = "no") =>
        /\ Returned
        /\ ~results[1].ok
        /\ results[1].exitCode = ExitGitContextError
        /\ results[1].code = "GIT_CONTEXT_ERROR"
        /\ seen.model = "unknown"
        /\ call = IdleCall

\* nothing staged, in a run with ci, allowInvalid, noVerify and a forced
\* type and scope
GitContextFailureWitness ==
    /\ seen.staged = "no"
    /\ opts.ci /\ opts.allowInvalid /\ opts.noVerify /\ ~opts.dryRun
    /\ opts.type # Null /\ opts.scope # Null
    /\ Returned

\* C6: with dryRun, gitCommit is never called, and once a candidate that
\* passes the gate is generated the run has returned success with committed
\* false and cancelled false.
DryRunNeverCommits ==
    opts.dryRun =>
        /\ commits = <<>>
        /\ pc # "commit"
        /\ (Generated /\ PassesGate) =>
              /\ Returned
              /\ results[1].ok
              /\ ~results[1].committed
              /\ ~results[1].cancelled
              /\ results[1].message = candidate.message

\* a dryRun without ci that returned an invalid candidate under the override
DryRunNeverCommitsWitness ==
    /\ opts.dryRun /\ ~opts.ci /\ opts.allowInvalid
    /\ Generated
    /\ ~candidate.validation.ok
    /\ Returned
    /\ results[1].ok

\* C7: after an accepted or edited message is refused (invalid, allowInvalid
\* false), no new call of generateCandidate is made, and the candidate at the
\* next prompt is the refused one.
SameCandidateAfterRefusal ==
    rejection.pending =>
        /\ generateCalls = rejection.generateCalls
        /\ pc = "prompt" => candidate = rejection.candidate

\* C8: ollamaChat makes at most retries + 1 attempts; when it returns, all
\* attempts before the last failed transiently, they were at most retries,
\* and it returns the content of the last response; when it throws on a
\* transient failure, it made retries + 1 attempts and throws the error of
\* the last one, which for a status of 500 or more is an HTTP_ERROR flagged
\* retryable.
BoundedRetry ==
    /\ call.attempts <= opts.retries + 1
    /\ call.status = "returned" =>
          /\ call.attempts = call.transient + 1
          /\ call.transient <= opts.retries
          /\ call.last = "success"
          /\ call.content = call.served
    /\ (call.status = "threw" /\ call.last = "transient") =>
          /\ call.attempts = opts.retries + 1
          /\ call.transient = opts.retries + 1
          /\ results = <<toErrorResult(lastError)>>
          /\ call.lastStatus >= 500 =>
                /\ lastError.code = "HTTP_ERROR"
                /\ lastError.retryable
                /\ lastError.status = call.lastStatus

\* two transient failures, then a success, with retries = 2
BoundedRetryWitness ==
    /\ opts.retries = 2
    /\ call.status = "returned"
    /\ call.transient = 2
    /\ call.attempts = 3

\* C9: a failure of the chat request that is not transient ends the call at
\* once: it is the last attempt, no sleep follows it, and the call throws,
\* whatever is left of the retries.
NonTransientFailsAtOnce ==
    call.last = "fatal" =>
        /\ call.status = "threw"
        /\ call.attempts = call.transient + 1
        /\ call.sleeps = call.transient
        /\ ~lastError.retryable
        /\ Returned
        /\ results = <<toErrorResult(lastError)>>

\* a failure that is not transient, with retries left
NonTransientFailsAtOnceWitness ==
    /\ call.last = "fatal"
    /\ call.attempts = 2
    /\ opts.retries = 2

\* C10: a run that is over has returned exactly one result, a run that is
\* not has returned none; a failure of any call ends the run with a result;
\* and ok holds in a result exactly when its exit code is 0.
ExactlyOneResult ==
    /\ Len(results) <= 1
    /\ pc = "done" <=> Len(results) = 1
    /\ failedAt # "none" => Returned /\ ~results[1].ok
    /\ \A i \in 1..Len(results) : results[i].ok <=> results[i].exitCode = ExitSuccess

\* a run the select prompt ended by throwing
ExactlyOneResultWitness ==
    /\ failedAt = "prompt"
    /\ Returned
    /\ results[1].exitCode = ExitInternalError
\* C11: an OllamaError, thrown by ensureLocalModel or by a call of
\* generateCandidate (the first or a later one), ends the run with exit code
\* 3, the hint and the message of the error, and no call of gitCommit; every
\* failure of generateCandidate is an OllamaError.
BackendFailureExit ==
    /\ failedAt = "generate" => caught.class = "OllamaError"
    /\ caught.class = "OllamaError" =>
          /\ failedAt \in {"ensureLocalModel", "generate"}
          /\ Returned
          /\ ~results[1].ok
          /\ results[1].exitCode = ExitOllamaError
          /\ results[1].code = "OLLAMA_ERROR"
          /\ results[1].hint = caught.hint
          /\ results[1].message = caught.message
          /\ commits = <<>>

\* a generation that failed with a hint after a regeneration
BackendFailureExitWitness ==
    /\ failedAt = "generate"
    /\ generateCalls > 1
    /\ caught.hint # Null
    /\ Returned

\* C12: when gitCommit rejects, the run has returned a failure with exit code
\* 5 (never a result with committed true), gitCommit was called exactly once,
\* and nothing follows: no step of the run is possible any more.
CommitRejectionExit ==
    failedAt = "commit" =>
        /\ Returned
        /\ ~results[1].ok
        /\ results[1].exitCode = ExitGitCommitError
        /\ results[1].code = "GIT_COMMIT_ERROR"
        /\ Len(commits) = 1
        /\ ~ENABLED Next

\* an edited message that gitCommit rejected
CommitRejectionExitWitness ==
    /\ failedAt = "commit"
    /\ answer = "edited"
    /\ Returned

\* C13: after gitCommit rejects, the message that was to be committed is in
\* the result of the run.
MessageKeptAfterFailedCommit ==
    failedAt = "commit" =>
        /\ Returned
        /\ finalMessage \in {results[1].message, results[1].hint}

\* C14: when the select prompt resolves to cancel or is dismissed, the run
\* has returned success with cancelled true, committed false and the
\* candidate, and gitCommit was not called; no success result has cancelled
\* and committed both true.
CancelEnds ==
    /\ answer \in {"cancel", "undefined"} =>
          /\ results = <<SuccessResult(candidate.message, candidate.source, FALSE, TRUE)>>
          /\ pc = "done"
          /\ commits = <<>>
    /\ \A i \in 1..Len(results) :
          (results[i].ok /\ results[i].cancelled) => ~results[i].committed

\* a prompt dismissed at a later iteration
CancelEndsWitness ==
    /\ answer = "undefined"
    /\ promptCalls > 1
    /\ generateCalls > 1
    /\ Returned

\* C16: in a run in which a call of generateCandidate failed, gitCommit has
\* not been called, neither before the failure nor after it.
NoCommitWithFailedGeneration ==
    failedAt = "generate" =>
        /\ commits = <<>>
        /\ finalMessage = Null
        /\ Returned
        /\ ~results[1].ok

\* a generation that failed after a refused accept
NoCommitWithFailedGenerationWitness ==
    /\ failedAt = "generate"
    /\ rejection.pending
    /\ answer = "accept"

\* C15: generateCandidate tags the candidate "repaired" exactly when the
\* message repairMessage returns differs from the normalized extracted
\* message, and "model" otherwise.
SourceTagsRepair ==
    ret.fn = "generateCandidate" =>
        ret.value.source =
            IF repairMessage(extractMessageFromModelOutput(Trim(arg.content)), arg.diff,
                             arg.forcedType, arg.scope).message
               # normalizeMessage(extractMessageFromModelOutput(Trim(arg.content)))
            THEN "repaired"
            ELSE "model"

\* C17: a normalized message that validateMessage accepts, repaired with no
\* forced type and no scope, comes back as itself with didRepair false.
ValidMessageRoundTrips ==
    (/\ ret.fn = "repairMessage"
     /\ arg.forcedType = Null
     /\ arg.scope = Null
     /\ normalizeMessage(arg.message) = arg.message
     /\ validateMessage(arg.message).ok) =>
        ret.value = [message |-> arg.message, didRepair |-> FALSE]

\* the subject repairMessage reads from a message that is not empty
SubjectOf(message) ==
    Trim(StripQuotes(Trim(SplitLines(normalizeMessage(stripWrappingCodeFence(message)))[1])))

\* the header detected in the subject of a message
HeaderOf(message) ==
    DetectedHeader(SubjectOf(message), parseTypedSubject(SubjectOf(message)),
                   parseLooseTypedSubject(SubjectOf(message)))

\* the message opens with this type, with or without a scope
HasType(message, type) ==
    StartsWith(message, type \o <<":", " ">>) \/ StartsWith(message, type \o <<"(">>)

\* C18: the type of the message repairMessage returns is the forced type when
\* one is given, else the type detected in the subject when there is one, else
\* the type inferred from the diff when there is one; else the message has no
\* type and its subject is the normalized description.
TypePrecedence ==
    (/\ ret.fn = "repairMessage"
     /\ normalizeMessage(stripWrappingCodeFence(arg.message)) # <<>>) =>
        IF arg.forcedType # Null THEN HasType(ret.value.message, arg.forcedType)
        ELSE IF HeaderOf(arg.message).type # Null
        THEN HasType(ret.value.message, HeaderOf(arg.message).type)
        ELSE IF inferTypeFromDiff(arg.diff) # Null
        THEN HasType(ret.value.message, inferTypeFromDiff(arg.diff))
        ELSE SplitLines(ret.value.message)[1]
             = normalizeDescription(HeaderOf(arg.message).description)

\* a subject without a type, repaired with a type inferred from the diff
TypePrecedenceWitness ==
    /\ ret.fn = "repairMessage"
    /\ normalizeMessage(stripWrappingCodeFence(arg.message)) # <<>>
    /\ arg.forcedType = Null
    /\ HeaderOf(arg.message).type = Null
    /\ inferTypeFromDiff(arg.diff) # Null
    /\ HasType(ret.value.message, inferTypeFromDiff(arg.diff))

\* the subject validateMessage reads: the trimmed first line of the
\* normalized message
ValidatedSubject(message) == Trim(SplitLines(normalizeMessage(message))[1])

\* the checks of validateMessage in the order of the claim, each on its own:
\* TRUE where it fails
FailedChecks(message) ==
    <<normalizeMessage(message) = <<>>,
      Includes(normalizeMessage(message), Fence),
      ValidatedSubject(message) = <<>>,
      Len(ValidatedSubject(message)) > SubjectMaxLength,
      ValidatedSubject(message) # <<>>
          /\ ValidatedSubject(message)[Len(ValidatedSubject(message))] = ".",
      ~MatchesSubjectRegex(ValidatedSubject(message)),
      ~isAllowedType(SubjectRegexType(ValidatedSubject(message)))>>

CheckReasons ==
    <<"Message is empty", "No markdown/code fences", "Subject line is empty",
      "Subject line > 72 chars", "Subject should not end with a period",
      "Not Conventional Commits format", "Type must be one of">>

\* C19: validateMessage answers with the reason of the first check, in the
\* order empty message, fence, empty subject, length, period, grammar, type,
\* that fails on the normalized message, and with ok exactly when none fails.
FirstFailedCheckDecides ==
    ret.fn = "validateMessage" =>
        /\ ret.value.ok <=> (\A k \in 1..Len(CheckReasons) : ~FailedChecks(arg.message)[k])
        /\ \A k \in 1..Len(CheckReasons) :
              ret.value.reason = CheckReasons[k] <=>
                  /\ FailedChecks(arg.message)[k]
                  /\ \A j \in 1..(k - 1) : ~FailedChecks(arg.message)[j]

\* a subject over the length bound that does not match the grammar either
FirstFailedCheckDecidesWitness ==
    /\ ret.fn = "validateMessage"
    /\ Len(ValidatedSubject(arg.message)) > SubjectMaxLength
    /\ ~MatchesSubjectRegex(ValidatedSubject(arg.message))
    /\ ret.value = Invalid("Subject line > 72 chars")

\* the output kinds whose text carries a string-typed message field, as the
\* whole text or between the first and the last brace
CarriesMessage(kind) == kind \in {"json", "jsonMembers", "fencedJson", "embedded", "array"}

\* C20: extractMessageFromModelOutput returns a text for every output: the
\* string-typed message field of the JSON object that the fence-stripped
\* output is or embeds, else the fence-stripped output itself, in either case
\* fence-stripped once more and normalized.
ExtractPriority ==
    ret.fn = "extractMessageFromModelOutput" =>
        ret.value =
            IF CarriesMessage(arg.kind)
            THEN normalizeMessage(stripWrappingCodeFence(arg.payload))
            ELSE normalizeMessage(stripWrappingCodeFence(stripWrappingCodeFence(
                     ModelOutput(arg.kind, arg.payload))))

\* a message with a line break and a body, read out of JSON embedded in prose
ExtractPriorityWitness ==
    /\ ret.fn = "extractMessageFromModelOutput"
    /\ arg.kind = "embedded"
    /\ Includes(arg.payload, <<"\n">>)
    /\ ret.value = arg.payload

\* C23: a value caught by runWorkflow that is neither a WorkflowError nor an
\* OllamaError gives an error result with exit code 6 and a message that is
\* not blank: the message of the value when it has one that is not blank,
\* the text "Unexpected internal error." otherwise.
UnexpectedIsInternal ==
    caught.class \in {"Error", "string", "other"} =>
        /\ Returned
        /\ ~results[1].ok
        /\ results[1].exitCode = ExitInternalError
        /\ results[1].code = "INTERNAL_ERROR"
        /\ results[1].hint = Null
        /\ Trim(results[1].message) # <<>>
        /\ results[1].message =
              IF caught.class \in {"Error", "string"} /\ Trim(caught.message) # <<>>
              THEN caught.message
              ELSE Phrase("Unexpected internal error.")

\* a prompt that throws a value that is no Error object and no string
UnexpectedIsInternalWitness ==
    /\ caught.class = "other"
    /\ failedAt = "prompt"
    /\ Returned
    /\ results[1].message = Phrase("Unexpected internal error.")

\* the select prompt resolves to regen in this step
Regenerates ==
    /\ pc = "prompt"
    /\ promptCalls' = promptCalls + 1
    /\ failedAt' = "none"
    /\ answer' = "regen"

\* C24: a regen answer enters generateCandidate exactly once and returns
\* and commits nothing; the candidate shown at the prompt is the one of the
\* call of generateCandidate that just returned and no other step changes
\* it, so the one before a regen is never returned or committed; and a run
\* whose last answer was regen has ended only by a failure.
RegenerateReenters ==
    [][/\ Regenerates => /\ generateCalls' = generateCalls + 1
                         /\ pc' = "chat"
                         /\ call'.status = "running"
                         /\ results' = results
                         /\ commits' = commits
       /\ (pc = "chat" /\ pc' = "prompt") =>
             candidate' = generateCandidate(call'.content, diff', opts')
       /\ (pc # "chat" /\ call'.status = "returned") => candidate' = candidate
       /\ (pc' \in {"chat", "done"} /\ call'.status # "returned") =>
             /\ commits' = <<>>
             /\ \A i \in 1..Len(results') : ~results'[i].ok
       /\ (pc' = "done" /\ answer' = "regen") => (Len(results') = 1 /\ ~results'[1].ok)]_vars

\* the candidate after two regen answers in a row
RegenerateReentersWitness ==
    /\ answer = "regen"
    /\ promptCalls = 2
    /\ generateCalls = 3
    /\ pc = "prompt"
    /\ candidate = generateCandidate(call.content, diff, opts)

\* C25: after an edit that is not empty, the normalized edited text is the
\* message that is validated, handed to gitCommit and returned, with source
\* "repaired" when it differs from the message of the candidate and the
\* source of the candidate otherwise; after accept the message and the source
\* are those of the candidate.
EditedMessageCommitted ==
    /\ (answer = "edited" /\ rejection.pending) =>
          ~validateMessage(normalizeMessage(edited)).ok /\ ~opts.allowInvalid
    /\ (answer = "edited" /\ pc = "commit") =>
          /\ finalMessage = normalizeMessage(edited)
          /\ validateMessage(finalMessage).ok \/ opts.allowInvalid
    /\ (answer = "edited" /\ commits # <<>>) =>
          commits = <<[message |-> normalizeMessage(edited), noVerify |-> opts.noVerify]>>
    /\ (answer = "edited" /\ Returned /\ results[1].ok) =>
          results[1] = SuccessResult(normalizeMessage(edited),
                                     IF normalizeMessage(edited) # candidate.message
                                     THEN "repaired"
                                     ELSE candidate.source,
                                     TRUE, FALSE)
    /\ (answer = "accept" /\ Returned /\ results[1].ok) =>
          results[1] = SuccessResult(candidate.message, candidate.source, TRUE, FALSE)

\* a candidate of the model, edited to another message and committed
EditedMessageCommittedWitness ==
    /\ answer = "edited"
    /\ Returned
    /\ results[1].ok
    /\ candidate.source = "model"
    /\ results[1].source = "repaired"
    /\ edited # normalizeMessage(edited)
    /\ Len(commits) = 1

\* C26: after a text prompt that is dismissed or resolves to a text that is
\* empty once normalized, the run has returned the success result with the
\* message of the candidate, committed false and cancelled true, and
\* gitCommit has not been called.
EmptyEditCancels ==
    (/\ answer \in {"empty", "edited"}
     /\ edited = Null \/ normalizeMessage(edited) = <<>>) =>
        /\ pc = "done"
        /\ results = <<SuccessResult(candidate.message, candidate.source, FALSE, TRUE)>>
        /\ commits = <<>>

\* the run is past the preconditions of runWorkflow
PreconditionsPassed ==
    /\ pc \notin {"isGitRepo", "hasStagedChanges", "ensureLocalModel", "getStagedDiff"}
    /\ failedAt \notin {"isGitRepo", "hasStagedChanges", "ensureLocalModel", "getStagedDiff"}

\* C29: a run with ci or dryRun set never prompts, calls generateCandidate
\* exactly once when the preconditions pass and not at all otherwise, makes at
\* most retries + 1 chat attempts and at most one call of gitCommit, and
\* returns a result; no step is taken once the run has returned.
NonInteractiveTerminates ==
    /\ []((opts.ci \/ opts.dryRun) =>
             /\ promptCalls = 0
             /\ generateCalls = (IF PreconditionsPassed THEN 1 ELSE 0)
             /\ call.attempts <= opts.retries + 1
             /\ Len(commits) <= 1)
    /\ <>((opts.ci \/ opts.dryRun) => Returned)
    /\ [][pc # "done"]_vars

\* a run in ci mode that spent every retry and then committed
NonInteractiveTerminatesWitness ==
    /\ opts.ci
    /\ opts.retries = MaxRetries
    /\ call.attempts = MaxRetries + 1
    /\ Len(commits) = 1
    /\ Returned
    /\ results[1].ok

\* C30: when the run has returned success with committed true, gitCommit was
\* called exactly once, with the message of the result and the noVerify
\* option of the run; and from the call of gitCommit on the run has returned
\* and takes no further step, so that call was its last.
CommittedMessageIsResult ==
    /\ (Returned /\ results[1].ok /\ results[1].committed) =>
          commits = <<[message |-> results[1].message, noVerify |-> opts.noVerify]>>
    /\ commits # <<>> => (pc = "done" /\ ~ENABLED Next)

\* an edited message committed with --no-verify
CommittedMessageIsResultWitness ==
    /\ Returned
    /\ results[1].ok
    /\ results[1].committed
    /\ opts.noVerify
    /\ answer = "edited"
    /\ results[1].message # candidate.message

\* the types inferTypeFromDiff can answer, in the order of its tests
Categories == <<<<"d","o","c","s">>, <<"t","e","s","t">>, <<"c","i">>, <<"b","u","i","l","d">>>>

\* every file of files qualifies for the k-th category
Covers(files, k) ==
    \A i \in 1..Len(files) :
        CASE k = 1 -> isDocumentationFile(files[i])
          [] k = 2 -> isTestFile(files[i])
          [] k = 3 -> isCiFile(files[i])
          [] k = 4 -> isBuildFile(files[i])

\* C21: inferTypeFromDiff answers none for a diff without file headers;
\* otherwise it answers the first of docs, test, ci, build that every changed
\* file qualifies for, and none when there is no such category.
InferFirstCategory ==
    ret.fn = "inferTypeFromDiff" =>
        /\ ~Includes(arg.diff, DiffHeader) => ret.value = Null
        /\ DiffFiles(arg.diff) = <<>> => ret.value = Null
        /\ DiffFiles(arg.diff) # <<>> =>
              /\ \A k \in 1..Len(Categories) :
                    ret.value = Categories[k] <=>
                        /\ Covers(DiffFiles(arg.diff), k)
                        /\ \A j \in 1..(k - 1) : ~Covers(DiffFiles(arg.diff), j)
              /\ ret.value = Null <=>
                    \A k \in 1..Len(Categories) : ~Covers(DiffFiles(arg.diff), k)

\* two files that are documentation and, one by its suffix and one by its
\* directory, tests as well: the answer is docs
InferFirstCategoryWitness ==
    /\ ret.fn = "inferTypeFromDiff"
    /\ Len(DiffFiles(arg.diff)) = 2
    /\ DiffFiles(arg.diff)[1] # DiffFiles(arg.diff)[2]
    /\ Covers(DiffFiles(arg.diff), 1)
    /\ Covers(DiffFiles(arg.diff), 2)
    /\ ret.value = Categories[1]

\* the path has a directory named test or tests, at the top or below it
UnderTestDirectory(path) ==
    \/ StartsWith(path, <<"t","e","s","t","/">>)
    \/ StartsWith(path, <<"t","e","s","t","s","/">>)
    \/ Includes(path, <<"/","t","e","s","t","/">>)
    \/ Includes(path, <<"/","t","e","s","t","s","/">>)

\* C28: for a diff whose changed files are all under a directory named test
\* or tests, at any depth, and are not all documentation files,
\* inferTypeFromDiff answers test.
TestDirectoryIsTest ==
    (/\ ret.fn = "inferTypeFromDiff"
     /\ DiffFiles(arg.diff) # <<>>
     /\ \A i \in 1..Len(DiffFiles(arg.diff)) : UnderTestDirectory(DiffFiles(arg.diff)[i])
     /\ ~Covers(DiffFiles(arg.diff), 1)) =>
        ret.value = Categories[2]

\* C27: repairing the message a repair returned, with the same diff, forced
\* type and scope, returns that message again and reports no repair.
RepairIsIdempotent ==
    ret.fn = "repairMessage" =>
        repairMessage(ret.value.message, arg.diff, arg.forcedType, arg.scope)
            = [message |-> ret.value.message, didRepair |-> FALSE]

\* the first h characters of the diff, the truncation marker, and the last t
Marked(text, h, t) ==
    SubSeq(text, 1, h) \o DIFF_TRUNCATION_MARKER \o SubSeq(text, Len(text) - t + 1, Len(text))

\* C22 as stated: clampDiff returns a diff no longer than maxChars unchanged;
\* a longer one comes back no longer than maxChars, and as a prefix of the
\* diff, the truncation marker and a suffix of the diff as soon as maxChars
\* has room for the marker.
ClampMarksWhenMarkerFits ==
    ret.fn = "clampDiff" =>
        /\ Len(arg.diff) <= arg.maxChars => ret.value = arg.diff
        /\ Len(arg.diff) > arg.maxChars =>
            /\ Len(ret.value) <= arg.maxChars
            /\ arg.maxChars >= Len(DIFF_TRUNCATION_MARKER) =>
                \E h \in 0..arg.maxChars : \E t \in 0..arg.maxChars :
                    ret.value = Marked(arg.diff, h, t)

\* C22, amended: clampDiff returns a diff no longer than maxChars unchanged; a
\* longer one comes back no longer than maxChars: as its first maxChars
\* characters when maxChars is at most twenty more than the marker's length,
\* and otherwise as a non-empty prefix, the marker and a non-empty suffix of
\* exactly maxChars characters together.
ClampBounded ==
    ret.fn = "clampDiff" =>
        /\ Len(arg.diff) <= arg.maxChars => ret.value = arg.diff
        /\ Len(arg.diff) > arg.maxChars =>
            /\ Len(ret.value) <= arg.maxChars
            /\ arg.maxChars <= Len(DIFF_TRUNCATION_MARKER) + 20 =>
                ret.value = SubSeq(arg.diff, 1, arg.maxChars)
            /\ arg.maxChars > Len(DIFF_TRUNCATION_MARKER) + 20 =>
                \E h \in 1..arg.maxChars : \E t \in 1..arg.maxChars :
                    /\ h + Len(DIFF_TRUNCATION_MARKER) + t = arg.maxChars
                    /\ ret.value = Marked(arg.diff, h, t)

ClampBoundedWitness ==
    /\ ret.fn = "clampDiff"
    /\ Len(arg.diff) > arg.maxChars
    /\ arg.maxChars = Len(DIFF_TRUNCATION_MARKER) + 21
    /\ Len(ret.value) = arg.maxChars
    /\ ret.value # SubSeq(arg.diff, 1, arg.maxChars)
====
